---------------------------- MODULE Spec2Model ----------------------------
(***************************************************************************)
(* A model of the numerical core of mat-model-lab: the crystal symmetry    *)
(* engine (core/crystal_type.py), the Born stability test                  *)
(* (core/stability.py), the 2D/3D embedding (core/conversions.py) and the  *)
(* Voigt-Reuss-Hill averages (core/elastic_vrh.py, core/elastic_vrh_2d.py).*)
(*                                                                         *)
(* Numbers.  A stiffness entry is an integer count of half GPa: the value  *)
(* c GPa is held as 2*c.  Every input entry is a whole number of GPa (an   *)
(* even count), so the one halving of the symmetry rules,                  *)
(* C66 = (C11 - C12)/2, is exact.  Quantities that need a true quotient    *)
(* (compliances, Reuss bounds) are exact fractions <<numerator,            *)
(* denominator>>.                                                          *)
(***************************************************************************)
EXTENDS Integers, Sequences, FiniteSets, TLC

VARIABLES
    C,      \* the array the session started from (the caller's input)
    cij,    \* the current matrix: C, or what fill_symmetric_matrix made of it
    hist,   \* the <<crystal_type, is_3d>> of every completion applied to C
    op,     \* the last operation called
    ret     \* what that operation returned

vars == <<C, cij, hist, op, ret>>

(***************************************************************************)
(* Bounds of the model.                                                    *)
(***************************************************************************)
\* how many families of input values are tried
MaxSeed == 2
\* how many times a completion is applied in a row
MaxFills == 2

Idx == 0..5

Abs(x) == IF x < 0 THEN -x ELSE x

Sign(x) == IF x > 0 THEN 1 ELSE IF x < 0 THEN -1 ELSE 0

Zeros6 == [p \in Idx \X Idx |-> 0]

(***************************************************************************)
(* The class registry.  A constant name 'cIJ' is held as the pair <<I,J>>  *)
(* of its two digits (1-indexed, as written in the source).                *)
(***************************************************************************)
CRYSTAL_TYPES_3D ==
    [t \in 1..10 |->
       CASE t = 1  -> [name |-> "Cubic",
                       independent |-> << <<1,1>>, <<1,2>>, <<4,4>> >>]
         [] t = 2  -> [name |-> "Tetragonal_1",
                       independent |-> << <<1,1>>, <<1,2>>, <<1,3>>, <<3,3>>,
                                          <<4,4>>, <<6,6>> >>]
         [] t = 3  -> [name |-> "Tetragonal_2",
                       independent |-> << <<1,1>>, <<1,2>>, <<1,3>>, <<1,6>>,
                                          <<3,3>>, <<4,4>>, <<6,6>> >>]
         [] t = 4  -> [name |-> "Orthorhombic",
                       independent |-> << <<1,1>>, <<1,2>>, <<1,3>>, <<2,2>>,
                                          <<2,3>>, <<3,3>>, <<4,4>>, <<5,5>>,
                                          <<6,6>> >>]
         [] t = 5  -> [name |-> "Hexagonal",
                       independent |-> << <<1,1>>, <<1,2>>, <<1,3>>, <<3,3>>,
                                          <<4,4>> >>]
         [] t = 6  -> [name |-> "Trigonal_1",
                       independent |-> << <<1,1>>, <<1,2>>, <<1,3>>, <<1,4>>,
                                          <<3,3>>, <<4,4>> >>]
         [] t = 7  -> [name |-> "Trigonal_2",
                       independent |-> << <<1,1>>, <<1,2>>, <<1,3>>, <<1,4>>,
                                          <<1,5>>, <<3,3>>, <<4,4>> >>]
         [] t = 8  -> [name |-> "Monoclinic_1",
                       independent |-> << <<1,1>>, <<1,2>>, <<1,3>>, <<1,6>>,
                                          <<2,2>>, <<2,3>>, <<2,6>>, <<3,3>>,
                                          <<3,6>>, <<4,4>>, <<4,5>>, <<5,5>>,
                                          <<6,6>> >>]
         [] t = 9  -> [name |-> "Monoclinic_2",
                       independent |-> << <<1,1>>, <<1,2>>, <<1,3>>, <<1,4>>,
                                          <<2,2>>, <<2,3>>, <<2,4>>, <<3,3>>,
                                          <<3,4>>, <<4,4>>, <<5,5>>, <<5,6>>,
                                          <<6,6>> >>]
         [] t = 10 -> [name |-> "Triclinic",
                       independent |-> << <<1,1>>, <<1,2>>, <<1,3>>, <<1,4>>,
                                          <<1,5>>, <<1,6>>, <<2,2>>, <<2,3>>,
                                          <<2,4>>, <<2,5>>, <<2,6>>, <<3,3>>,
                                          <<3,4>>, <<3,5>>, <<3,6>>, <<4,4>>,
                                          <<4,5>>, <<4,6>>, <<5,5>>, <<5,6>>,
                                          <<6,6>> >>]]

CRYSTAL_TYPES_2D ==
    [t \in 1..4 |->
       CASE t = 1 -> [name |-> "Hexagonal",
                      independent |-> << <<1,1>>, <<1,2>> >>]
         [] t = 2 -> [name |-> "Square",
                      independent |-> << <<1,1>>, <<1,2>>, <<6,6>> >>]
         [] t = 3 -> [name |-> "Rectangular",
                      independent |-> << <<1,1>>, <<1,2>>, <<2,2>>, <<6,6>> >>]
         [] t = 4 -> [name |-> "Oblique",
                      independent |-> << <<1,1>>, <<1,2>>, <<1,6>>, <<2,2>>,
                                         <<2,6>>, <<6,6>> >>]]

Types(is_3d) == IF is_3d THEN CRYSTAL_TYPES_3D ELSE CRYSTAL_TYPES_2D

get_crystal_type_name(crystal_type, is_3d) ==
    IF crystal_type \in DOMAIN Types(is_3d)
    THEN Types(is_3d)[crystal_type].name
    ELSE "Unknown"

get_independent_constants(crystal_type, is_3d) ==
    IF crystal_type \in DOMAIN Types(is_3d)
    THEN Types(is_3d)[crystal_type].independent
    ELSE << >>

\* 'cIJ' -> the 0-indexed cell (I-1, J-1)
get_enabled_indices(crystal_type, is_3d) ==
    LET independent == get_independent_constants(crystal_type, is_3d)
    IN  [k \in 1..Len(independent) |->
            <<independent[k][1] - 1, independent[k][2] - 1>>]


(***************************************************************************)
(* fill_symmetric_matrix: the completion of a matrix by a class's rules.   *)
(***************************************************************************)
\* a slip: the elif branch of lines 127-128 left out, so that a value given
\* only in the lower triangle is never copied up
Symmetrize_UpperOnly(M) ==
    [p \in Idx \X Idx |->
        IF p[2] < p[1] /\ M[p[2], p[1]] # 0 THEN M[p[2], p[1]] ELSE M[p]]

\* the loop of lines 123-128: the upper triangle wins where it is nonzero,
\* otherwise a nonzero lower entry is copied up
Symmetrize(M) ==
    [p \in Idx \X Idx |->
        LET i == p[1]
            j == p[2]
        IN  IF i < j
            THEN (IF M[i,j] # 0 THEN M[i,j]
                  ELSE IF M[j,i] # 0 THEN M[j,i] ELSE M[i,j])
            ELSE IF j < i
            THEN (IF M[j,i] # 0 THEN M[j,i] ELSE M[i,j])
            ELSE M[i,j]]

\* a slip: the division by 2 of lines 166, 182, 206 and 212 left out
Half_Forgotten(x) == x

\* x / 2 on counts of half GPa
Half(x) == x \div 2

\* lines 130-215: the branch of the class, applied to the symmetrized copy
ApplyRules(C_filled, crystal_type, is_3d) ==
    IF is_3d
    THEN CASE crystal_type = 1 ->
                [C_filled EXCEPT ![1,1] = C_filled[0,0],
                                 ![2,2] = C_filled[0,0],
                                 ![0,2] = C_filled[0,1],
                                 ![2,0] = C_filled[0,1],
                                 ![1,2] = C_filled[0,1],
                                 ![2,1] = C_filled[0,1],
                                 ![4,4] = C_filled[3,3],
                                 ![5,5] = C_filled[3,3]]
           [] crystal_type = 2 ->
                [C_filled EXCEPT ![1,1] = C_filled[0,0],
                                 ![1,2] = C_filled[0,2],
                                 ![2,1] = C_filled[0,2],
                                 ![4,4] = C_filled[3,3]]
           [] crystal_type = 3 ->
                [C_filled EXCEPT ![1,1] = C_filled[0,0],
                                 ![1,2] = C_filled[0,2],
                                 ![2,1] = C_filled[0,2],
                                 ![4,4] = C_filled[3,3],
                                 ![1,5] = -C_filled[0,5],
                                 ![5,1] = -C_filled[0,5]]
           [] crystal_type = 5 ->
                [C_filled EXCEPT ![1,1] = C_filled[0,0],
                                 ![1,2] = C_filled[0,2],
                                 ![2,1] = C_filled[0,2],
                                 ![4,4] = C_filled[3,3],
                                 ![5,5] = Half(C_filled[0,0] - C_filled[0,1])]
           [] crystal_type = 6 ->
                [C_filled EXCEPT ![1,1] = C_filled[0,0],
                                 ![1,2] = C_filled[0,2],
                                 ![2,1] = C_filled[0,2],
                                 ![4,4] = C_filled[3,3],
                                 ![1,3] = -C_filled[0,3],
                                 ![3,1] = -C_filled[0,3],
                                 ![4,5] = C_filled[0,3],
                                 ![5,4] = C_filled[0,3],
                                 ![5,5] = Half(C_filled[0,0] - C_filled[0,1])]
           [] crystal_type = 7 ->
                [C_filled EXCEPT ![1,1] = C_filled[0,0],
                                 ![1,2] = C_filled[0,2],
                                 ![2,1] = C_filled[0,2],
                                 ![4,4] = C_filled[3,3],
                                 ![1,3] = -C_filled[0,3],
                                 ![3,1] = -C_filled[0,3],
                                 ![4,5] = C_filled[0,3],
                                 ![5,4] = C_filled[0,3],
                                 ![1,4] = -C_filled[0,4],
                                 ![4,1] = -C_filled[0,4],
                                 ![3,5] = -C_filled[0,4],
                                 ![5,3] = -C_filled[0,4],
                                 ![5,5] = Half(C_filled[0,0] - C_filled[0,1])]
           [] OTHER -> C_filled
    ELSE CASE crystal_type = 1 ->
                [C_filled EXCEPT ![1,1] = C_filled[0,0],
                                 ![5,5] = Half(C_filled[0,0] - C_filled[0,1])]
           [] crystal_type = 2 ->
                [C_filled EXCEPT ![1,1] = C_filled[0,0]]
           [] OTHER -> C_filled

\* a slip: the branch of the class run before the loop of lines 123-128,
\* so that the rules read cells the loop has not reconciled yet
fill_symmetric_matrix_RulesFirst(M, crystal_type, is_3d) ==
    Symmetrize(ApplyRules(M, crystal_type, is_3d))

\* a slip: the completion rebuilt from the class's independent cells alone,
\* so that every other cell is cleared
fill_symmetric_matrix_Projecting(M, crystal_type, is_3d) ==
    LET cells == get_enabled_indices(crystal_type, is_3d)
        listed(p) == \E k \in 1..Len(cells) :
                        cells[k] = p \/ cells[k] = <<p[2], p[1]>>
    IN  [p \in Idx \X Idx |-> IF listed(p) THEN Symmetrize(M)[p] ELSE 0]

fill_symmetric_matrix(M, crystal_type, is_3d) ==
    ApplyRules(Symmetrize(M), crystal_type, is_3d)

\* the cells on the left-hand side of the assignments of lines 131-213,
\* per class; a class without a branch has none
AssignedCells(crystal_type, is_3d) ==
    LET tetragonal == {<<1,1>>, <<1,2>>, <<2,1>>, <<4,4>>}
        trigonal == tetragonal \cup {<<1,3>>, <<3,1>>, <<4,5>>, <<5,4>>, <<5,5>>}
    IN  IF is_3d
        THEN CASE crystal_type = 1 ->
                    {<<1,1>>, <<2,2>>, <<0,2>>, <<2,0>>, <<1,2>>, <<2,1>>,
                     <<4,4>>, <<5,5>>}
               [] crystal_type = 2 -> tetragonal
               [] crystal_type = 3 -> tetragonal \cup {<<1,5>>, <<5,1>>}
               [] crystal_type = 5 -> tetragonal \cup {<<5,5>>}
               [] crystal_type = 6 -> trigonal
               [] crystal_type = 7 ->
                    trigonal \cup {<<1,4>>, <<4,1>>, <<3,5>>, <<5,3>>}
               [] OTHER -> {}
        ELSE CASE crystal_type = 1 -> {<<1,1>>, <<5,5>>}
               [] crystal_type = 2 -> {<<1,1>>}
               [] OTHER -> {}


(***************************************************************************)
(* identify_crystal_type.                                                  *)
(***************************************************************************)
\* 1/tolerance for the default tolerance 1e-6
TolInv == 1000000

\* np.allclose(a, b, atol=tolerance, rtol=tolerance) on one pair of entries:
\* |a - b| <= tol + tol*|b|; in counts of half GPa that is
\* |a - b| * TolInv <= 2 + |b|
IsClose(a, b) == Abs(a - b) <= (2 + Abs(b)) \div TolInv

AllClose(A, B) == \A p \in Idx \X Idx : IsClose(A[p], B[p])

\* a slip: the registry sorted by type id, which leaves it in registry order
SortKey_ById(type_id) == type_id

\* the sort key of line 250
SortKey(type_id) == Len(CRYSTAL_TYPES_3D[type_id].independent)

\* one step of a stable sort: x goes behind every element whose key is not
\* greater than its own
InsertStable(s, x) ==
    LET pos == Cardinality({k \in 1..Len(s) : SortKey(s[k]) <= SortKey(x)})
    IN  SubSeq(s, 1, pos) \o <<x>> \o SubSeq(s, pos + 1, Len(s))

RECURSIVE SortedUpTo(_)
SortedUpTo(n) == IF n = 0 THEN << >> ELSE InsertStable(SortedUpTo(n - 1), n)

\* a slip: the registry walked as it is written, the sort left out
sorted_types_Unsorted == [t \in 1..10 |-> t]

\* sorted(CRYSTAL_TYPES_3D.items(), key=number of independent constants):
\* the type ids in the order they are probed
sorted_types == SortedUpTo(10)

\* the cells (i, j) the loop of lines 258-263 visits for each class
ProbeCells ==
    [type_id \in 1..10 |->
        LET cells == get_enabled_indices(type_id, TRUE)
        IN  {cells[k] : k \in 1..Len(cells)}]

\* lines 255-263: the probe matrix of a class: C[i,j] at (i,j) and at (j,i)
C_test(M, type_id) ==
    [p \in Idx \X Idx |->
        IF p \in ProbeCells[type_id] THEN M[p]
        ELSE IF <<p[2], p[1]>> \in ProbeCells[type_id] THEN M[p[2], p[1]]
        ELSE 0]

\* a slip: the comparison of line 270 made on the diagonal alone
Matches_DiagonalOnly(M, type_id) ==
    \A i \in Idx :
        IsClose(M[i, i],
                fill_symmetric_matrix(C_test(M, type_id), type_id, TRUE)[i, i])

\* line 270: the input against the reconstruction of the class
Matches(M, type_id) ==
    AllClose(M, fill_symmetric_matrix(C_test(M, type_id), type_id, TRUE))

\* a slip: the loop keeps the last class that matches, not the first
FirstMatch_KeepsLast(M, k) ==
    LET hits == {j \in k..Len(sorted_types) : Matches(M, sorted_types[j])}
    IN  IF hits = {} THEN Len(sorted_types) + 1
        ELSE CHOOSE j \in hits : \A h \in hits : h <= j

\* the loop of lines 252-272: the position in sorted_types of the first class
\* that matches, Len + 1 when the loop runs out
RECURSIVE FirstMatch(_, _)
FirstMatch(M, k) ==
    IF k > Len(sorted_types) THEN k
    ELSE IF Matches(M, sorted_types[k]) THEN k
    ELSE FirstMatch(M, k + 1)

\* a slip: the fallback of line 275 reports no class
Classified_NoFallback(k) ==
    IF k <= Len(sorted_types)
    THEN <<sorted_types[k], CRYSTAL_TYPES_3D[sorted_types[k]].name>>
    ELSE <<0, "Unknown">>

\* what the loop returns once it stopped at position k
Classified(k) ==
    IF k <= Len(sorted_types)
    THEN <<sorted_types[k], CRYSTAL_TYPES_3D[sorted_types[k]].name>>
    ELSE <<10, "Triclinic">>

identify_crystal_type(M) ==
    IF DOMAIN M # Idx \X Idx
    THEN <<0, "Unknown (not 6x6)">>
    ELSE Classified(FirstMatch(M, 1))

(***************************************************************************)
(* gui/modules/elasticity/widget.py, loadElasticConstantsFromFile lines    *)
(* 1115-1137: the class detected for a loaded matrix.  In 3D it is         *)
(* identify_crystal_type; in 2D the widget looks at six cells itself.      *)
(***************************************************************************)
\* abs(x) < 1e-6, for x2 = 2*x in counts of half GPa
Negligible(x2) == Abs(x2) * TolInv < 4

\* lines 1132-1136: the registry id of a 2D class name, 0 if there is none
TypeId2D(detected_type) ==
    LET ids == {c_id \in 1..4 : CRYSTAL_TYPES_2D[c_id].name = detected_type}
    IN  IF ids = {} THEN 0 ELSE CHOOSE c_id \in ids : TRUE

\* a slip: the 3D classification used in 2D mode as well
loadElasticConstantsFromFile_Always3D(M, is_3d) == identify_crystal_type(M)

loadElasticConstantsFromFile(M, is_3d) ==
    IF is_3d THEN identify_crystal_type(M)
    ELSE LET c11 == M[0,0]
             c12 == M[0,1]
             c22 == M[1,1]
             c16 == M[0,5]
             c26 == M[1,5]
             c66 == M[5,5]
             detected_type ==
                 IF Negligible(2 * c16) /\ Negligible(2 * c26)
                 THEN IF /\ Negligible(2 * (c11 - c22))
                         /\ Negligible(2 * c66 - (c11 - c12))
                      THEN "Hexagonal"
                      ELSE IF Negligible(2 * (c11 - c22))
                      THEN "Square"
                      ELSE "Rectangular"
                 ELSE "Oblique"
         IN  <<TypeId2D(detected_type), detected_type>>

(***************************************************************************)
(* Inputs of the symmetry engine.                                          *)
(***************************************************************************)
Classes == {<<t, TRUE>> : t \in 1..10} \cup {<<t, FALSE>> : t \in 1..4}

\* the k-th value (in GPa) of value family s: distinct and nonzero in k.
\* Family 1 is 1, 2, 3, ...; family 2 is 11, 9, 7, ..., 1, -1, ...
Value(s, k) == 13 * (s - 1) - (3 * s - 4) * k

\* a matrix holding family s at exactly the independent cells of a class;
\* "upper" leaves the lower triangle empty, as one-sided input does
Pattern(cls, s, layout) ==
    LET cells == get_enabled_indices(cls[1], cls[2])
        at(p) == {k \in 1..Len(cells) :
                     cells[k] = p \/ (layout = "both" /\ cells[k] = <<p[2], p[1]>>)}
    IN  [p \in Idx \X Idx |->
            IF at(p) = {} THEN 0
            ELSE 2 * Value(s, CHOOSE k \in at(p) : TRUE)]

\* the in-plane values (in GPa) tried at C11, C12 and C66
PlanarValues == {1, 2, 4}

\* a matrix holding a, b, c at C11, C12, C66 and 5, 6, 7 at C22, C16, C26,
\* as far as these are independent cells of 2D class t
PlanarPattern(t, a, b, c) ==
    LET cells == get_enabled_indices(t, FALSE)
        listed(p) == \E k \in 1..Len(cells) : cells[k] = p
    IN  [p \in Idx \X Idx |->
            IF ~listed(p) THEN 0
            ELSE 2 * (CASE p = <<0, 0>> -> a
                        [] p = <<0, 1>> -> b
                        [] p = <<5, 5>> -> c
                        [] p = <<1, 1>> -> 5
                        [] p = <<0, 5>> -> 6
                        [] p = <<1, 5>> -> 7)]

PlanarInputs ==
    {PlanarPattern(q[1], q[2], q[3], q[4]) :
        q \in {q \in (1..4) \X PlanarValues \X PlanarValues \X PlanarValues :
                  q[2] # q[3] /\ q[2] # q[4] /\ q[3] # q[4]}}

\* values written over one cell of a pattern: a cleared cell, a stray entry
StrayValues == {0, 2 * 25}

Inputs ==
    {Pattern(cls, s, layout) :
        cls \in Classes, s \in 1..MaxSeed, layout \in {"upper", "both"}}
    \cup
    {[Pattern(<<t, TRUE>>, 1, "both") EXCEPT ![p] = v] :
        t \in 1..10, p \in Idx \X Idx, v \in StrayValues}
    \cup PlanarInputs

Init ==
    /\ C \in Inputs
    /\ cij = C
    /\ hist = << >>
    /\ op = "none"
    /\ ret = << >>

\* a caller completes its matrix with a class and keeps the result
Fill(crystal_type, is_3d) ==
    /\ op \in {"none", "fill_symmetric_matrix"}
    /\ Len(hist) < MaxFills
    /\ IF hist = << >> THEN TRUE ELSE hist[Len(hist)] = <<crystal_type, is_3d>>
    /\ cij' = fill_symmetric_matrix(cij, crystal_type, is_3d)
    /\ hist' = Append(hist, <<crystal_type, is_3d>>)
    /\ op' = "fill_symmetric_matrix"
    /\ ret' = cij'
    /\ UNCHANGED C

\* a caller classifies its matrix; probed lists the classes the loop visited
Identify ==
    /\ op \in {"none", "fill_symmetric_matrix"}
    /\ op' = "identify_crystal_type"
    /\ LET k == FirstMatch(cij, 1)
       IN  ret' = [result |-> identify_crystal_type(cij),
                   probed |-> SubSeq(sorted_types, 1,
                                     IF k <= Len(sorted_types) THEN k
                                     ELSE Len(sorted_types))]
    /\ UNCHANGED <<C, cij, hist>>

\* the widget loads the matrix and detects its class
Load(is_3d) ==
    /\ op \in {"none", "fill_symmetric_matrix"}
    /\ op' = "loadElasticConstantsFromFile"
    /\ ret' = [is_3d |-> is_3d,
               result |-> loadElasticConstantsFromFile(cij, is_3d)]
    /\ UNCHANGED <<C, cij, hist>>

Next ==
    \/ \E cls \in Classes : Fill(cls[1], cls[2])
    \/ Identify
    \/ \E is_3d \in BOOLEAN : Load(is_3d)

Spec == Init /\ [][Next]_vars


(***************************************************************************)
(* Matrices of any shape: a function on (0..m-1) \X (0..n-1).              *)
(***************************************************************************)
Rows(M) == Cardinality({p[1] : p \in DOMAIN M})
Cols(M) == Cardinality({p[2] : p \in DOMAIN M})

\* M[np.ix_(indices, indices)] for a sequence of indices
SubMatrix(M, indices) ==
    [p \in (0..(Len(indices) - 1)) \X (0..(Len(indices) - 1)) |->
        M[indices[p[1] + 1], indices[p[2] + 1]]]

(***************************************************************************)
(* core/conversions.py: the in-plane block and its 6x6 embedding.          *)
(***************************************************************************)
PlanarIndices == <<0, 1, 5>>

\* a slip: the in-plane block written to rows and columns 0, 1, 2
D2toD3_Packed(Cij3) ==
    [p \in Idx \X Idx |->
        IF p[1] <= 2 /\ p[2] <= 2 THEN Cij3[p] ELSE 0]

D2toD3(Cij3) ==
    IF Cols(Cij3) # 3
    THEN [raised |-> "ValueError"]
    ELSE LET num_matrices == Rows(Cij3) \div 3
             at(k) == {q \in 1..3 : PlanarIndices[q] = k}
         IN  [p \in (0..(num_matrices * 6 - 1)) \X Idx |->
                LET i == p[1] \div 6
                    r == at(p[1] % 6)
                    c == at(p[2])
                IN  IF r = {} \/ c = {} THEN 0
                    ELSE Cij3[i * 3 + (CHOOSE q \in r : TRUE) - 1,
                              (CHOOSE q \in c : TRUE) - 1]]

D3toD2(Cij6) ==
    IF Rows(Cij6) # 6 \/ Cols(Cij6) # 6
    THEN [raised |-> "ValueError"]
    ELSE SubMatrix(Cij6, PlanarIndices)

(***************************************************************************)
(* np.linalg.eigvals.  The eigenvalues of M are the roots of its           *)
(* characteristic polynomial det(x*I - M), each as often as its            *)
(* multiplicity.  The model holds the matrices whose roots are all         *)
(* integers (counts of half GPa); numpy returns them in no promised order, *)
(* so they are kept in ascending order.  The polynomial is taken block by  *)
(* block of the matrix (the spectrum of a direct sum is the union of the   *)
(* spectra), and a root is looked for among the divisors of the lowest     *)
(* coefficient.                                                            *)
(***************************************************************************)
RemoveAt(s, j) == SubSeq(s, 1, j - 1) \o SubSeq(s, j + 1, Len(s))

\* the determinant of the rows and columns of M listed in rows and cols, by
\* expansion along the first listed row
RECURSIVE Minor(_, _, _)
RECURSIVE MinorRow(_, _, _, _)
MinorRow(M, rows, cols, j) ==
    IF j > Len(cols) THEN 0
    ELSE (IF M[rows[1], cols[j]] = 0 THEN 0
          ELSE (IF j % 2 = 1 THEN 1 ELSE -1) * M[rows[1], cols[j]]
               * Minor(M, Tail(rows), RemoveAt(cols, j)))
         + MinorRow(M, rows, cols, j + 1)

Minor(M, rows, cols) ==
    IF Len(rows) = 0 THEN 1 ELSE MinorRow(M, rows, cols, 1)

RECURSIVE Ascending(_)
Ascending(S) ==
    IF S = {} THEN << >>
    ELSE LET x == CHOOSE x \in S : \A y \in S : x <= y
         IN  <<x>> \o Ascending(S \ {x})

Det(M) == LET all == Ascending(0..(Rows(M) - 1)) IN Minor(M, all, all)

RECURSIVE SumOver(_, _, _)
SumOver(M, sets, acc) ==
    IF sets = {} THEN acc
    ELSE LET S == CHOOSE S \in sets : TRUE
         IN  SumOver(M, sets \ {S}, acc + Minor(M, Ascending(S), Ascending(S)))

\* the sum of the principal minors of order k
PrincipalSum(M, k) ==
    SumOver(M, {S \in SUBSET (0..(Rows(M) - 1)) : Cardinality(S) = k}, 0)

\* the coefficients of det(x*I - M), leading coefficient first
RECURSIVE Coefficients(_, _)
Coefficients(M, k) ==
    IF k > Rows(M) THEN << >>
    ELSE <<(IF k % 2 = 0 THEN 1 ELSE -1) * PrincipalSum(M, k)>>
         \o Coefficients(M, k + 1)

CharPoly(M) == Coefficients(M, 0)

\* poly divided by (x - r): <<quotient, remainder>>, by Horner's scheme
RECURSIVE Horner(_, _, _, _)
Horner(poly, r, k, acc) ==
    IF k > Len(poly) THEN acc
    ELSE Horner(poly, r, k + 1,
                Append(acc, poly[k] + (IF k = 1 THEN 0 ELSE r * acc[k - 1])))

Deflate(poly, r) ==
    Horner(SubSeq(poly, 1, Len(poly) - 1), r, 1, << >>)

\* the remainder poly[n] + r * q is zero, q the last quotient coefficient
IsRoot(poly, r) ==
    /\ Len(poly) > 1
    /\ LET a == poly[Len(poly)]
           q == Deflate(poly, r)[Len(poly) - 1]
       IN  IF r = 0 THEN a = 0
           ELSE /\ Abs(a) % Abs(r) = 0
                /\ Abs(a) \div Abs(r) = Abs(q)
                /\ Sign(a) = -(Sign(r) * Sign(q))

\* no eigenvalue exceeds the largest absolute row sum
RECURSIVE RowSum(_, _, _)
RowSum(M, i, j) ==
    IF j >= Cols(M) THEN 0 ELSE Abs(M[i,j]) + RowSum(M, i, j + 1)

SpectralBound(M) ==
    LET sums == {RowSum(M, i, 0) : i \in 0..(Rows(M) - 1)}
    IN  CHOOSE b \in sums : \A c \in sums : c <= b

\* the integer roots of poly among the candidates, in ascending order and
\* each with its multiplicity
RECURSIVE RootsFrom(_, _)
RootsFrom(poly, candidates) ==
    LET roots == {r \in candidates : IsRoot(poly, r)}
    IN  IF roots = {} THEN << >>
        ELSE LET r == CHOOSE x \in roots : \A y \in roots : x <= y
             IN  <<r>> \o RootsFrom(Deflate(poly, r), roots)

\* a nonzero integer root divides the lowest nonzero coefficient
Candidates(poly, bound) ==
    LET low == {k \in 1..Len(poly) :
                   poly[k] # 0 /\ \A j \in (k + 1)..Len(poly) : poly[j] = 0}
        a == poly[CHOOSE k \in low : TRUE]
    IN  {r \in (-bound)..bound : r = 0 \/ Abs(a) % Abs(r) = 0}

\* the rows and columns linked to those of S by nonzero entries
RECURSIVE Component(_, _)
Component(M, S) ==
    LET T == S \cup {j \in 0..(Rows(M) - 1) :
                        \E i \in S : M[i, j] # 0 \/ M[j, i] # 0}
    IN  IF T = S THEN S ELSE Component(M, T)

Blocks(M) == {Component(M, {i}) : i \in 0..(Rows(M) - 1)}

RECURSIVE InsertAscending(_, _)
InsertAscending(s, x) ==
    IF s = << >> THEN <<x>>
    ELSE IF x <= Head(s) THEN <<x>> \o s
    ELSE <<Head(s)>> \o InsertAscending(Tail(s), x)

RECURSIVE SortAscending(_)
SortAscending(s) ==
    IF s = << >> THEN << >>
    ELSE InsertAscending(SortAscending(Tail(s)), Head(s))

RECURSIVE BlockRoots(_, _)
BlockRoots(M, blocks) ==
    IF blocks = {} THEN << >>
    ELSE LET B == CHOOSE B \in blocks : TRUE
             sub == SubMatrix(M, Ascending(B))
             poly == CharPoly(sub)
         IN  RootsFrom(poly, Candidates(poly, SpectralBound(sub)))
             \o BlockRoots(M, blocks \ {B})

eigvals(M) == SortAscending(BlockRoots(M, Blocks(M)))

\* every eigenvalue of M is an integer
IntegerSpectrum(M) == Len(eigvals(M)) = Rows(M)

(***************************************************************************)
(* core/stability.py.                                                      *)
(***************************************************************************)
\* 1/atol of np.allclose's default atol = 1e-8
AtolInv == 100000000

\* np.allclose(C_tmp, 0) with the default tolerances: |x| <= 1e-8
AllCloseToZero(M) == \A p \in DOMAIN M : Abs(M[p]) <= 2 \div AtolInv

\* a slip: zero counted as positive
AllPositive_NonStrict(eigenvalues) ==
    \A k \in 1..Len(eigenvalues) : eigenvalues[k] >= 0

\* np.all(np.real(eigenvalues) > 0)
AllPositive(eigenvalues) ==
    \A k \in 1..Len(eigenvalues) : eigenvalues[k] > 0

\* a slip: the largest eigenvalue reported as the smallest
Min_Largest(eigenvalues) ==
    CHOOSE x \in {eigenvalues[k] : k \in 1..Len(eigenvalues)} :
        \A k \in 1..Len(eigenvalues) : x >= eigenvalues[k]

\* np.min
Min(eigenvalues) ==
    CHOOSE x \in {eigenvalues[k] : k \in 1..Len(eigenvalues)} :
        \A k \in 1..Len(eigenvalues) : x <= eigenvalues[k]

\* np.sum(eigenvalues_real <= 0)
NonPositiveCount(eigenvalues) ==
    Cardinality({k \in 1..Len(eigenvalues) : eigenvalues[k] <= 0})

StableofMechanical(M) ==
    LET m == Rows(M)
        n == Cols(M)
    IN  IF m # n THEN FALSE
        ELSE IF n = 6
        THEN LET C_tmp == [p \in (0..2) \X (0..2) |-> M[p[1] + 2, p[2] + 2]]
             IN  IF AllCloseToZero(C_tmp)
                 THEN AllPositive(eigvals(SubMatrix(M, PlanarIndices)))
                 ELSE AllPositive(eigvals(M))
        ELSE IF n # 3 THEN FALSE
        ELSE AllPositive(eigvals(M))

\* lines 108-123 and 126-140: the verdict on the eigenvalues of a matrix
Verdict(eigenvalues_real, stable_text, unstable_text) ==
    [stable |-> AllPositive(eigenvalues_real),
     eigenvalues |-> eigenvalues_real,
     min_eigenvalue |-> Min(eigenvalues_real),
     message |-> IF AllPositive(eigenvalues_real)
                 THEN <<stable_text>>
                 ELSE <<unstable_text, NonPositiveCount(eigenvalues_real)>>]

check_stability_detailed(M, is_2d) ==
    LET m == Rows(M)
        n == Cols(M)
        result == [stable |-> FALSE, eigenvalues |-> "None",
                   min_eigenvalue |-> "None", message |-> <<"">>]
    IN  IF m # n
        THEN [result EXCEPT !.message = <<"Matrix is not square">>]
        ELSE IF n # 6 /\ n # 3
        THEN [result EXCEPT !.message = <<"Matrix must be 3x3 or 6x6">>]
        ELSE IF is_2d
        THEN (IF n = 3
              THEN [raised |-> "IndexError"]
              ELSE Verdict(eigvals(SubMatrix(M, PlanarIndices)),
                           "Structure is mechanically STABLE (2D)",
                           "Structure is UNSTABLE (2D) ({} non-positive eigenvalue(s))"))
        ELSE Verdict(eigvals(M),
                     "Structure is mechanically STABLE",
                     "Structure is UNSTABLE ({} non-positive eigenvalue(s))")

(***************************************************************************)
(* Inputs of the stability test: 3x3 in-plane matrices and 6x6 matrices    *)
(* with integer eigenvalues.                                               *)
(***************************************************************************)
\* the largest entry, in GPa
MaxEntry == 2

Entries == {2 * x : x \in -1..MaxEntry}

Matrix3(a, b, e, b2, d, f, e2, f2, c) ==
    [p \in (0..2) \X (0..2) |->
        <<a, b, e, b2, d, f, e2, f2, c>>[3 * p[1] + p[2] + 1]]

\* symmetric in-plane matrices (C11, C12, C16, C22, C26, C66), and matrices
\* whose C12 and C21 differ
InPlaneInputs ==
    {M \in {Matrix3(a, b, e, b, d, f, e, f, c) :
                a \in Entries, b \in Entries, c \in Entries,
                d \in Entries, e \in {0, 2}, f \in {0, -2}}
            \cup
            {Matrix3(a, b, 0, b2, d, 0, 0, 0, c) :
                a \in Entries, b \in Entries, b2 \in Entries,
                c \in Entries, d \in Entries} :
        IntegerSpectrum(M)}

CubicInputs ==
    {fill_symmetric_matrix(
        [Zeros6 EXCEPT ![0,0] = a, ![0,1] = b, ![3,3] = c], 1, TRUE) :
        a \in Entries, b \in Entries, c \in Entries}

\* shapes the stability test turns away: non-square, or square of a size
\* other than 3 and 6
BadShapes == {<<1, 1>>, <<2, 2>>, <<2, 3>>, <<3, 6>>, <<4, 4>>, <<5, 5>>, <<6, 3>>}

ShapeInputs ==
    {[p \in (0..(s[1] - 1)) \X (0..(s[2] - 1)) |-> IF p[1] = p[2] THEN v ELSE 0] :
        s \in BadShapes, v \in {2, 4}}

Converted == {"D2toD3", "D3toD2"}

\* 6x6 matrices whose block of rows and columns 2..4 is zero while C13 is
\* not: C11 = 3, C13 = 2 (GPa) give the eigenvalues 4 and -1
CoupledInputs ==
    {[p \in Idx \X Idx |->
        IF p = <<0, 0>> THEN 6
        ELSE IF p \in {<<0, 2>>, <<2, 0>>} THEN 4
        ELSE IF p \in {<<1, 1>>, <<5, 5>>} THEN v
        ELSE 0] : v \in {2, 4}}

InitStability ==
    /\ C \in InPlaneInputs \cup CubicInputs \cup ShapeInputs \cup CoupledInputs
    /\ cij = C
    /\ hist = << >>
    /\ op = "none"
    /\ ret = << >>

\* a caller widens its 3x3 matrix to 6x6
Embed ==
    /\ op = "none"
    /\ Rows(cij) = 3 /\ Cols(cij) = 3
    /\ cij' = D2toD3(cij)
    /\ hist' = Append(hist, "D2toD3")
    /\ op' = "D2toD3"
    /\ ret' = cij'
    /\ UNCHANGED C

\* a caller takes the in-plane block of its 6x6 matrix
Extract ==
    /\ op = "none"
    /\ Rows(cij) = 6 /\ Cols(cij) = 6
    /\ cij' = D3toD2(cij)
    /\ hist' = Append(hist, "D3toD2")
    /\ op' = "D3toD2"
    /\ ret' = cij'
    /\ UNCHANGED C

Stable ==
    /\ op \in {"none"} \cup Converted
    /\ op' = "StableofMechanical"
    /\ ret' = StableofMechanical(cij)
    /\ UNCHANGED <<C, cij, hist>>

Detailed(is_2d) ==
    /\ op \in {"none"} \cup Converted
    /\ op' = "check_stability_detailed"
    /\ ret' = [is_2d |-> is_2d, result |-> check_stability_detailed(cij, is_2d)]
    /\ UNCHANGED <<C, cij, hist>>

NextStability ==
    \/ Embed
    \/ Extract
    \/ Stable
    \/ \E is_2d \in BOOLEAN : Detailed(is_2d)

SpecStability == InitStability /\ [][NextStability]_vars

\* every matrix whose eigenvalues are taken has them all in the model
SpectrumRepresented ==
    /\ (Rows(cij) = Cols(cij) /\ Rows(cij) \in {3, 6}) => IntegerSpectrum(cij)
    /\ (Rows(cij) = 6 /\ Cols(cij) = 6) =>
          IntegerSpectrum(SubMatrix(cij, PlanarIndices))

(***************************************************************************)
(* Floating-point quotients.  A value is an exact fraction <<n, d>> in     *)
(* lowest terms with d > 0, or one of the three values division by zero    *)
(* produces on numpy floats: <<1, 0>> (inf), <<-1, 0>> (-inf) and          *)
(* <<0, 0>> (nan).  Zero carries no sign.                                  *)
(***************************************************************************)
RECURSIVE GCD(_, _)
GCD(a, b) == IF b = 0 THEN a ELSE GCD(b, a % b)

Rat(n, d) ==
    IF d = 0 THEN <<Sign(n), 0>>
    ELSE LET g == GCD(Abs(n), Abs(d))
         IN  <<Sign(d) * (n \div g), Abs(d) \div g>>

Num(n) == <<n, 1>>
Inf == <<1, 0>>
NaN == <<0, 0>>

IsFinite(a) == a[2] # 0
IsNaN(a) == a = NaN

Neg(a) == <<-a[1], a[2]>>

Add(a, b) ==
    IF IsNaN(a) \/ IsNaN(b) THEN NaN
    ELSE IF ~IsFinite(a) THEN (IF ~IsFinite(b) /\ a # b THEN NaN ELSE a)
    ELSE IF ~IsFinite(b) THEN b
    ELSE LET g == GCD(a[2], b[2])
         IN  Rat(a[1] * (b[2] \div g) + b[1] * (a[2] \div g),
                 (a[2] \div g) * b[2])

Sub(a, b) == Add(a, Neg(b))

Mul(a, b) ==
    IF a[2] = 0 \/ b[2] = 0 THEN <<Sign(a[1]) * Sign(b[1]), 0>>
    ELSE LET g == GCD(Abs(a[1]), b[2])
             h == GCD(Abs(b[1]), a[2])
         IN  Rat((a[1] \div g) * (b[1] \div h), (a[2] \div h) * (b[2] \div g))

Recip(a) == IF a[1] < 0 THEN <<-a[2], -a[1]>> ELSE <<a[2], a[1]>>

Div(a, b) == Mul(a, Recip(b))

(***************************************************************************)
(* np.linalg.inv: the inverse by cofactors; a singular matrix raises       *)
(* LinAlgError.                                                            *)
(***************************************************************************)
Cofactor(M, i, j) ==
    LET all == Ascending(0..(Rows(M) - 1))
    IN  (IF (i + j) % 2 = 0 THEN 1 ELSE -1)
        * Minor(M, RemoveAt(all, i + 1), RemoveAt(all, j + 1))

\* the determinant is the product of those of the blocks
Singular(M) == \E B \in Blocks(M) : Det(SubMatrix(M, Ascending(B))) = 0

\* entry (i, j) of the inverse of a nonsingular M: the inverse of a direct
\* sum is the direct sum of the inverses, each by cofactors
InvEntry(M, i, j) ==
    LET B == Component(M, {i})
        sub == SubMatrix(M, Ascending(B))
        at(x) == Cardinality({y \in B : y < x})
    IN  IF j \notin B THEN Num(0)
        ELSE Rat(Cofactor(sub, at(j), at(i)), Det(sub))

(***************************************************************************)
(* core/elastic_vrh.py.  H = 2*x**0.585 - 3 is held by the factors of its  *)
(* argument x = G_VRH**2 / K_VRH.                                          *)
(***************************************************************************)
\* a slip: the Voigt bound taken for the Hill average
Hill_VoigtOnly(V, R) == V

\* the Hill average of a Voigt and a Reuss bound (elastic_vrh.py lines 38-39,
\* elastic_vrh_2d.py lines 78-79)
Hill(V, R) == Div(Add(V, R), Num(2))

\* a slip: the inversion error swallowed and a zero compliance used, as
\* ElasticVRH2D does
ElasticVRH3D_Swallows(M) ==
    LET K_V == Rat(M[0,0] + M[1,1] + M[2,2] + 2 * (M[0,1] + M[0,2] + M[1,2]), 9)
        G_V == Rat(M[0,0] + M[1,1] + M[2,2] - (M[0,1] + M[0,2] + M[1,2])
                   + 3 * (M[3,3] + M[4,4] + M[5,5]), 15)
    IN  [K_V |-> K_V, G_V |-> G_V, K_R |-> Inf, G_R |-> Inf]

ElasticVRH3D(M) ==
    LET K_V == Rat(M[0,0] + M[1,1] + M[2,2] + 2 * (M[0,1] + M[0,2] + M[1,2]), 9)
        G_V == Rat(M[0,0] + M[1,1] + M[2,2] - (M[0,1] + M[0,2] + M[1,2])
                   + 3 * (M[3,3] + M[4,4] + M[5,5]), 15)
    IN  IF Singular(M) THEN [raised |-> "LinAlgError"]
        ELSE
        LET S(i, j) == InvEntry(M, i, j)
            diag == Add(Add(S(0,0), S(1,1)), S(2,2))
            off == Add(Add(S(0,1), S(0,2)), S(1,2))
            shear == Add(Add(S(3,3), S(4,4)), S(5,5))
            K_R == Div(Num(1), Add(diag, Mul(Num(2), off)))
            G_R == Div(Num(15), Add(Sub(Mul(Num(4), diag), Mul(Num(4), off)),
                                    Mul(Num(3), shear)))
            K_VRH == Hill(K_V, K_R)
            G_VRH == Hill(G_V, G_R)
        IN  [K_V |-> K_V, K_R |-> K_R, K_VRH |-> K_VRH,
             G_V |-> G_V, G_R |-> G_R, G_VRH |-> G_VRH,
             E |-> Div(Mul(Mul(Num(9), K_VRH), G_VRH),
                       Add(Mul(Num(3), K_VRH), G_VRH)),
             v |-> Div(Sub(Mul(Num(3), K_VRH), Mul(Num(2), G_VRH)),
                       Add(Mul(Num(6), K_VRH), Mul(Num(2), G_VRH))),
             A |-> Sub(Add(Div(Mul(Num(5), G_V), G_R), Div(K_V, K_R)), Num(6)),
             P_C |-> Num(M[0,1] - M[3,3]),
             k_G |-> Div(K_VRH, G_VRH),
             H |-> [chen_argument |-> [G |-> G_VRH, K |-> K_VRH]]]

(***************************************************************************)
(* core/elastic_vrh_2d.py.                                                 *)
(***************************************************************************)
ElasticVRH2D(M) ==
    LET K_V == Rat(M[0,0] + M[1,1] + 2 * M[0,1], 4)
        G_V == Rat(M[0,0] + M[1,1] - 2 * M[0,1] + 4 * M[5,5], 8)
        C_planar == SubMatrix(M, PlanarIndices)
        \* lines 60-63: a singular block leaves a zero compliance
        S_planar(i, j) == IF Singular(C_planar) THEN Num(0)
                          ELSE InvEntry(C_planar, i, j)
        s11 == S_planar(0, 0)
        s22 == S_planar(1, 1)
        s12 == S_planar(0, 1)
        s66 == S_planar(2, 2)
        k_den == Add(Add(s11, s22), Mul(Num(2), s12))
        K_R == IF k_den # Num(0) THEN Div(Num(1), k_den) ELSE Num(0)
        G_R == Div(Num(2), Add(Sub(Add(s11, s22), Mul(Num(2), s12)), s66))
        K_VRH == Hill(K_V, K_R)
        G_VRH == Hill(G_V, G_R)
        sum == Add(K_VRH, G_VRH)
    IN  [K_V |-> K_V, K_R |-> K_R, K_VRH |-> K_VRH,
         G_V |-> G_V, G_R |-> G_R, G_VRH |-> G_VRH,
         E |-> IF sum # Num(0)
               THEN Div(Mul(Mul(Num(4), K_VRH), G_VRH), sum) ELSE Num(0),
         v |-> IF sum # Num(0) THEN Div(Sub(K_VRH, G_VRH), sum) ELSE Num(0),
         H |-> Num(0),
         A |-> IF K_R # Num(0) /\ G_R # Num(0)
               THEN Sub(Add(Div(K_V, K_R), Div(G_V, G_R)), Num(2))
               ELSE Num(0),
         k_G |-> IF G_VRH # Num(0) THEN Div(K_VRH, G_VRH) ELSE Num(0)]

(***************************************************************************)
(* Inputs of the averages: cubic and hexagonal 6x6 matrices, singular ones *)
(* among them, and in-plane matrices widened to 6x6.                       *)
(***************************************************************************)
HexagonalInputs ==
    {fill_symmetric_matrix(
        [Zeros6 EXCEPT ![0,0] = a, ![0,1] = b, ![0,2] = c13,
                       ![2,2] = c33, ![3,3] = c44], 5, TRUE) :
        a \in Entries, b \in Entries, c13 \in {0, 2},
        c33 \in Entries, c44 \in {0, 2}}

\* orthorhombic matrices, all positive definite
OrthorhombicInputs ==
    {fill_symmetric_matrix(
        [Zeros6 EXCEPT ![0,0] = c11, ![1,1] = 2, ![2,2] = c33,
                       ![0,1] = c12, ![0,2] = c13,
                       ![3,3] = 1, ![4,4] = c55, ![5,5] = 2],
        4, TRUE) :
        c11 \in {2, 4}, c33 \in {2, 4}, c12 \in {-1, 0, 1},
        c13 \in {-1, 0, 1}, c55 \in {1, 2}}

InitVRH ==
    /\ C \in CubicInputs \cup HexagonalInputs \cup OrthorhombicInputs
               \cup {D2toD3(M) : M \in InPlaneInputs}
    /\ cij = C
    /\ hist = << >>
    /\ op = "none"
    /\ ret = << >>

VRH3D ==
    /\ op = "none"
    /\ op' = "ElasticVRH3D"
    /\ ret' = ElasticVRH3D(cij)
    /\ UNCHANGED <<C, cij, hist>>

VRH2D ==
    /\ op = "none"
    /\ op' = "ElasticVRH2D"
    /\ ret' = ElasticVRH2D(cij)
    /\ UNCHANGED <<C, cij, hist>>

NextVRH ==
    \/ VRH3D
    \/ VRH2D

SpecVRH == InitVRH /\ [][NextVRH]_vars

(***************************************************************************)
(* Order of the floating-point values; a comparison with nan is false.     *)
(***************************************************************************)
LessEq(a, b) ==
    IF IsNaN(a) \/ IsNaN(b) THEN FALSE
    ELSE IF a = b THEN TRUE
    ELSE IF ~IsFinite(a) /\ ~IsFinite(b) THEN a[1] <= b[1]
    ELSE a[1] * b[2] <= b[1] * a[2]

\* np.min, np.max and np.mean of the values V taken count[v] times each
MinOf(V) ==
    IF NaN \in V THEN NaN ELSE CHOOSE x \in V : \A y \in V : LessEq(x, y)

MaxOf(V) ==
    IF NaN \in V THEN NaN ELSE CHOOSE x \in V : \A y \in V : LessEq(y, x)

RECURSIVE SumOf(_, _)
SumOf(f, D) ==
    IF D = {} THEN Num(0)
    ELSE LET x == CHOOSE x \in D : TRUE
         IN  Add(f[x], SumOf(f, D \ {x}))

(***************************************************************************)
(* Angles.  An angle is held by its cosine and sine, <<cos, sin>>, both    *)
(* exact fractions: the axes and the angles of the 3-4-5 triangle.         *)
(* np.cos and np.sin of an angle t*pi of a chi sweep are held at the       *)
(* nearest such angle, which is exact at the multiples of pi/2.            *)
(***************************************************************************)
Fifth(k) == Rat(k, 5)

Cos(a) == a[1]
Sin(a) == a[2]

\* <<upper end of |t| in thousandths, 5*cos, 5*sin>>, ascending
TrigTable ==
    << <<102, 5, 0>>, <<250, 4, 3>>, <<398, 3, 4>>, <<602, 0, 5>>,
       <<750, -3, 4>>, <<898, -4, 3>>, <<1000, -5, 0>> >>

\* the angle t*pi for a fraction t = <<n, d>> in [-1, 1]
TrigOf(t) ==
    LET k == CHOOSE k \in 1..Len(TrigTable) :
                /\ 1000 * Abs(t[1]) <= TrigTable[k][1] * t[2]
                /\ \A j \in 1..(k - 1) : 1000 * Abs(t[1]) > TrigTable[j][1] * t[2]
    IN  <<Fifth(TrigTable[k][2]), Fifth(Sign(t[1]) * TrigTable[k][3])>>

\* np.linspace(-np.pi, np.pi, n), in units of pi
linspace(n) ==
    [j \in 1..n |-> IF n = 1 THEN Num(-1) ELSE Rat(2 * (j - 1) - (n - 1), n - 1)]

(***************************************************************************)
(* The directional evaluators at one direction.  S is the 6x6 compliance,  *)
(* a function on Idx \X Idx with fractions as values.                      *)
(***************************************************************************)
\* (sin(theta)cos(phi), sin(theta)sin(phi), cos(theta))
First(theta, phi) ==
    <<Mul(Sin(theta), Cos(phi)), Mul(Sin(theta), Sin(phi)), Cos(theta)>>

Second(theta, phi, chi) ==
    <<Sub(Mul(Mul(Cos(chi), Cos(theta)), Cos(phi)), Mul(Sin(chi), Sin(phi))),
      Add(Mul(Mul(Cos(chi), Cos(theta)), Sin(phi)), Mul(Sin(chi), Cos(phi))),
      Neg(Mul(Cos(chi), Sin(theta)))>>

\* the six products a*a of the components of a, in Voigt order
Products(a) ==
    [i \in Idx |-> <<Mul(a[1], a[1]), Mul(a[2], a[2]), Mul(a[3], a[3]),
                     Mul(a[2], a[3]), Mul(a[1], a[3]), Mul(a[1], a[2])>>[i + 1]]

\* core/young.py
Young_at(S, theta, phi) ==
    LET a == Products(First(theta, phi))
        E == SumOf([i \in Idx |->
                      SumOf([j \in Idx |-> Mul(Mul(S[i, j], a[i]), a[j])], Idx)],
                   Idx)
    IN  Div(Num(1), E)

\* core/bulk.py
Bulk_at(S, theta, phi) ==
    LET a == Products(First(theta, phi))
        B == SumOf([i \in Idx |->
                      SumOf([j \in 0..2 |-> Mul(S[i, j], a[i])], 0..2)],
                   Idx)
    IN  Div(Num(1), Mul(Num(3), B))

\* core/poisson.py
Poisson_4D(S, theta, phi, chi) ==
    LET a1 == Products(First(theta, phi))
        a2 == Products(Second(theta, phi, chi))
        numerator ==
            SumOf([i \in Idx |->
                     SumOf([j \in Idx |-> Mul(Mul(S[i, j], a1[i]), a2[j])], Idx)],
                  Idx)
        denominator ==
            SumOf([i \in Idx |-> Mul(Mul(S[i, i], a1[i]), a1[i])], Idx)
    IN  Div(Neg(numerator), denominator)

\* core/shear.py, lines 41-44: the Voigt index of a pair of tensor indices
voigt_map(u, v) ==
    IF u = v THEN u ELSE 6 - u - v

\* lines 46-75
S_tensor(S, i, j, k, l) ==
    LET I == voigt_map(i, j)
        J == voigt_map(k, l)
        factor == (IF I >= 3 THEN 2 ELSE 1) * (IF J >= 3 THEN 2 ELSE 1)
    IN  Div(S[I, J], Num(factor))

\* a slip: the factor 4 of 1/G = 4 S_ijkl n_i m_j n_k m_l left out
Shear_4D_NoFactor(S, theta, phi, chi) ==
    LET n_vec == First(theta, phi)
        m_vec == Second(theta, phi, chi)
        inv_G ==
            SumOf([i \in 0..2 |-> SumOf([j \in 0..2 |->
                SumOf([k \in 0..2 |-> SumOf([l \in 0..2 |->
                    LET t == S_tensor(S, i, j, k, l)
                    IN  IF t = Num(0) THEN Num(0)
                        ELSE Mul(Mul(Mul(Mul(t, n_vec[i + 1]), m_vec[j + 1]),
                                     n_vec[k + 1]), m_vec[l + 1])],
                    0..2)], 0..2)], 0..2)], 0..2)
    IN  Div(Num(1), inv_G)

Shear_4D(S, theta, phi, chi) ==
    LET n_vec == First(theta, phi)
        m_vec == Second(theta, phi, chi)
        inv_G ==
            SumOf([i \in 0..2 |-> SumOf([j \in 0..2 |->
                SumOf([k \in 0..2 |-> SumOf([l \in 0..2 |->
                    LET t == S_tensor(S, i, j, k, l)
                    IN  IF t = Num(0) THEN Num(0)
                        ELSE Mul(Mul(Mul(Mul(t, n_vec[i + 1]), m_vec[j + 1]),
                                     n_vec[k + 1]), m_vec[l + 1])],
                    0..2)], 0..2)], 0..2)], 0..2)
    IN  Div(Num(1), Mul(Num(4), inv_G))

(***************************************************************************)
(* The directional evaluators on arrays of directions.  A pair of angle    *)
(* arrays theta, phi of one shape is a record: kind "float" for Python     *)
(* floats, "ndarray" for numpy arrays (shape << >> for a 0-d array);       *)
(* theta and phi map each index to an angle.                               *)
(***************************************************************************)
Indices(shape) ==
    IF Len(shape) = 0 THEN {<< >>}
    ELSE IF Len(shape) = 1 THEN {<<i>> : i \in 0..(shape[1] - 1)}
    ELSE (0..(shape[1] - 1)) \X (0..(shape[2] - 1))

\* core/young.py: elementwise, any shape
Young_3D(S, d) ==
    [shape |-> d.shape,
     values |-> [p \in Indices(d.shape) |-> Young_at(S, d.theta[p], d.phi[p])]]

\* core/bulk.py: elementwise, any shape
Bulk_3D(S, d) ==
    [shape |-> d.shape,
     values |-> [p \in Indices(d.shape) |-> Bulk_at(S, d.theta[p], d.phi[p])]]

\* shear.py line 129, poisson.py line 106
n_chi == 100

\* the number of chi samples: n_chi on a 1-D sweep, the number of columns
\* on a meshgrid (shear.py lines 129, 148; poisson.py lines 106, 125)
ChiCount(shape) ==
    IF Len(shape) = 1 THEN n_chi ELSE shape[2]

\* min, mean and max over the chi sweep of F at each direction
\* (shear.py lines 126-162, poisson.py lines 103-139)
Aggregate(F(_, _, _, _), S, d) ==
    IF d.kind = "float" THEN [raised |-> "AttributeError"]
    ELSE IF Len(d.shape) # 1 /\ Len(d.shape) # 2 THEN [raised |-> "ValueError"]
    ELSE
    LET chi == linspace(ChiCount(d.shape))
        angles == {<<j, TrigOf(chi[j])>> : j \in DOMAIN chi}
        \* each distinct angle of the sweep with the number of its samples
        weights == {<<a, Cardinality({x \in angles : x[2] = a})>> :
                        a \in {x[2] : x \in angles}}
        sweep(p) == {<<w[1], w[2], F(S, d.theta[p], d.phi[p], w[1])>> :
                        w \in weights}
        reduced ==
            {<<p, LET G == sweep(p)
                      V == {g[3] : g \in G}
                  IN  <<MinOf(V),
                        Div(SumOf([g \in G |-> Mul(Num(g[2]), g[3])], G),
                            Num(Len(chi))),
                        MaxOf(V)>> >> : p \in Indices(d.shape)}
        at(p) == (CHOOSE r \in reduced : r[1] = p)[2]
    IN  [shape |-> d.shape,
         chi |-> chi,
         min |-> [p \in Indices(d.shape) |-> at(p)[1]],
         mean |-> [p \in Indices(d.shape) |-> at(p)[2]],
         max |-> [p \in Indices(d.shape) |-> at(p)[3]]]

Shear_3D(S, d) == Aggregate(Shear_4D, S, d)

Poisson_3D(S, d) == Aggregate(Poisson_4D, S, d)

\* core/hardness.py.  With k = G/E the argument of the power is
\* k2G = k**2 * G, held by its factors k and G and by its kind: nan, inf,
\* positive, or zero or negative.
k2G_of(k, G) ==
    IF IsNaN(k) \/ IsNaN(G) THEN "nan"
    ELSE IF (~IsFinite(k) /\ G = Num(0)) \/ (k = Num(0) /\ ~IsFinite(G))
    THEN "nan"
    ELSE IF k = Num(0) \/ G[1] <= 0 THEN "k**2 * G <= 0"
    ELSE IF ~IsFinite(k) \/ ~IsFinite(G) THEN "inf"
    ELSE "k**2 * G > 0"

\* line 35: np.maximum(k2G, 1e-10), which hands a nan on
Floored(k2G) == IF k2G = "k**2 * G <= 0" THEN "1e-10" ELSE k2G

\* line 36: H = 2 * k2G_safe**0.585 - 3, nan or infinite with its argument
Chen(k2G_safe) ==
    IF k2G_safe \in {"nan", "inf"} THEN k2G_safe
    ELSE "2 * k2G_safe**0.585 - 3"

\* a slip: the invalid values left in place
nan_to_num_Missing(H) == H

\* line 39: np.nan_to_num(H, nan=0.0, posinf=0.0, neginf=0.0)
nan_to_num(H) == IF H \in {"nan", "inf", "-inf"} THEN "0.0" ELSE H

Hardness_at(E, G) ==
    LET k == Div(G, E)
        k2G_safe == Floored(k2G_of(k, G))
    IN  [k |-> k, G |-> G, k2G_safe |-> k2G_safe,
         H |-> nan_to_num(Chen(k2G_safe))]

Hardness_3D(S, d) ==
    LET E == Young_3D(S, d)
        G == Shear_3D(S, d)
    IN  IF "raised" \in DOMAIN G THEN G
        ELSE [shape |-> d.shape,
              values |-> [p \in Indices(d.shape) |->
                            Hardness_at(E.values[p], G.mean[p])]]

(***************************************************************************)
(* Inputs of the directional evaluators: the compliance of a cubic or      *)
(* tetragonal stiffness matrix, elastically isotropic (C12 = C11 - 2 C44)  *)
(* or not, and directions as floats, 0-d arrays, 1-D sweeps and meshgrids. *)
(* Directions off the axes are taken on the isotropic matrices, where the  *)
(* fractions stay small.                                                   *)
(***************************************************************************)
PositiveEntries == {x \in Entries : x > 0}

Cubic(a, b, c) ==
    fill_symmetric_matrix(
        [Zeros6 EXCEPT ![0,0] = a, ![0,1] = b, ![3,3] = c], 1, TRUE)

Isotropic(M) ==
    /\ M = Cubic(M[0,0], M[0,1], M[3,3])
    /\ M[0,1] = M[0,0] - 2 * M[3,3]

IsotropicInputs ==
    {Cubic(b + 2 * c, b, c) : b \in PositiveEntries, c \in {2, 4}}

\* cubic off the isotropy condition, and tetragonal with C66 # C44
AnisotropicInputs ==
    {Cubic(b + 2 * c + 2, b, c) : b \in PositiveEntries, c \in {2, 4}}
    \cup
    {[Cubic(b + 4, b, 2) EXCEPT ![5,5] = 4] : b \in PositiveEntries}

\* the compliance the caller hands over: np.linalg.inv of the stiffness
Compliance(M) == [p \in Idx \X Idx |-> InvEntry(M, p[1], p[2])]

AxisAngles == {<<Num(1), Num(0)>>, <<Num(0), Num(1)>>}
SkewAngles == {<<Fifth(3), Fifth(4)>>, <<Fifth(4), Fifth(3)>>}

AxisDirections == AxisAngles \X AxisAngles
SkewDirections == (AxisAngles \X SkewAngles) \cup (SkewAngles \X AxisAngles)

Scalar(kind, x) ==
    [kind |-> kind, shape |-> << >>,
     theta |-> [p \in {<< >>} |-> x[1]], phi |-> [p \in {<< >>} |-> x[2]]]

Sweep(xs) ==
    [kind |-> "ndarray", shape |-> <<Len(xs)>>,
     theta |-> [p \in Indices(<<Len(xs)>>) |-> xs[p[1] + 1][1]],
     phi |-> [p \in Indices(<<Len(xs)>>) |-> xs[p[1] + 1][2]]]

\* theta, phi = np.meshgrid(tv, pv)
Mesh(tv, pv) ==
    [kind |-> "ndarray", shape |-> <<Len(pv), Len(tv)>>,
     theta |-> [p \in Indices(<<Len(pv), Len(tv)>>) |-> tv[p[2] + 1]],
     phi |-> [p \in Indices(<<Len(pv), Len(tv)>>) |-> pv[p[1] + 1]]]

\* the longest row of a meshgrid
MaxColumns == 3

ScalarInputs(D) == {Scalar(k, x) : k \in {"float", "ndarray"}, x \in D}

SweepInputs(D) ==
    {Sweep(<<x>>) : x \in D}
    \cup {Sweep(<<x, y>>) : x \in {<<a, a>> : a \in AxisAngles}, y \in D}

\* rows of n polar angles that alternate between the pole and the equator
MeshInputs(PV) ==
    {Mesh([j \in 1..n |-> IF j % 2 = 1 THEN a ELSE <<a[2], a[1]>>], pv) :
        n \in 1..MaxColumns, a \in AxisAngles, pv \in PV}

DirectionInputs(M) ==
    IF Isotropic(M)
    THEN ScalarInputs(AxisDirections \cup SkewDirections)
         \cup SweepInputs(AxisDirections \cup SkewDirections)
         \cup MeshInputs({<<a>> : a \in AxisAngles \cup SkewAngles}
                         \cup {<<a, b>> : a \in AxisAngles, b \in SkewAngles})
    ELSE ScalarInputs(AxisDirections) \cup SweepInputs(AxisDirections)
         \cup MeshInputs({<<a>> : a \in AxisAngles})

\* C is the stiffness, cij its compliance, hist the directions of the call
InitDirectional ==
    /\ C \in IsotropicInputs \cup AnisotropicInputs
    /\ cij = Compliance(C)
    /\ \E d \in DirectionInputs(C) : hist = <<d>>
    /\ op = "none"
    /\ ret = << >>

Young ==
    /\ op = "none"
    /\ op' = "Young_3D"
    /\ ret' = Young_3D(cij, hist[1])
    /\ UNCHANGED <<C, cij, hist>>

Bulk ==
    /\ op = "none"
    /\ op' = "Bulk_3D"
    /\ ret' = Bulk_3D(cij, hist[1])
    /\ UNCHANGED <<C, cij, hist>>

Shear ==
    /\ op = "none"
    /\ op' = "Shear_3D"
    /\ ret' = Shear_3D(cij, hist[1])
    /\ UNCHANGED <<C, cij, hist>>

Poisson ==
    /\ op = "none"
    /\ op' = "Poisson_3D"
    /\ ret' = Poisson_3D(cij, hist[1])
    /\ UNCHANGED <<C, cij, hist>>

Hardness ==
    /\ op = "none"
    /\ op' = "Hardness_3D"
    /\ ret' = Hardness_3D(cij, hist[1])
    /\ UNCHANGED <<C, cij, hist>>

NextDirectional ==
    \/ Young
    \/ Bulk
    \/ Shear
    \/ Poisson
    \/ Hardness

SpecDirectional == InitDirectional /\ [][NextDirectional]_vars

(***************************************************************************)
(* Hardness on degenerate compliances: diag(n, n, n, s, s, s) seen from    *)
(* the pole theta = 0, where sin and cos are exact and E = 1/n, G = 1/s;   *)
(* n = 0 or s = 0 makes a modulus infinite, a negative one makes it        *)
(* negative.                                                               *)
(***************************************************************************)
\* the largest diagonal entry of a degenerate compliance
MaxCompliance == 2

DiagCompliance(n, s) ==
    [p \in Idx \X Idx |->
        IF p[1] # p[2] THEN Num(0) ELSE IF p[1] < 3 THEN Num(n) ELSE Num(s)]

PoleDirections == {<<Num(1), Num(0)>>} \X AxisAngles

InitHardness ==
    /\ C \in {DiagCompliance(n, s) : n \in (-MaxCompliance)..MaxCompliance,
                                      s \in (-MaxCompliance)..MaxCompliance}
    /\ cij = C
    /\ \E d \in {Scalar("ndarray", x) : x \in PoleDirections}
                 \cup {Sweep(<<x>>) : x \in PoleDirections}
                 \cup {Sweep(<<x, y>>) : x \in PoleDirections,
                                         y \in PoleDirections} :
          hist = <<d>>
    /\ op = "none"
    /\ ret = << >>

NextHardness ==
    \/ Young
    \/ Shear
    \/ Hardness

SpecHardness == InitHardness /\ [][NextHardness]_vars

(***************************************************************************)
(* core/shear.py lines 38-75 as the loop writes it: the tensor starts at   *)
(* zero and each Voigt cell (i, j), in loop order, writes its value to the *)
(* permutations of its two index pairs.                                    *)
(***************************************************************************)
\* lines 41-44
voigt_pair(i) == << <<0, 0>>, <<1, 1>>, <<2, 2>>, <<1, 2>>, <<0, 2>>, <<0, 1>> >>[i + 1]

\* lines 66-71
perms(i) == {voigt_pair(i), <<voigt_pair(i)[2], voigt_pair(i)[1]>>}

\* a slip: one factor 2 for a shear term, however many indices are shear
factor_Single(i, j) == IF i >= 3 \/ j >= 3 THEN 2 ELSE 1

\* line 58
factor(i, j) == (IF i >= 3 THEN 2 ELSE 1) * (IF j >= 3 THEN 2 ELSE 1)

\* the Voigt cells whose writes reach tensor cell q
Writers(q) ==
    {w \in Idx \X Idx :
        <<q[1], q[2]>> \in perms(w[1]) /\ <<q[3], q[4]>> \in perms(w[2])}

voigt_to_tensor(S) ==
    [q \in (0..2) \X (0..2) \X (0..2) \X (0..2) |->
        IF Writers(q) = {} THEN Num(0)
        ELSE LET last == CHOOSE w \in Writers(q) :
                            \A x \in Writers(q) :
                                6 * x[1] + x[2] <= 6 * w[1] + w[2]
             IN  Div(S[last], Num(factor(last[1], last[2])))]

\* the compliance diag(1, 1, 1, 0.5, 0.5, 0.5)
ShearFixture ==
    [p \in Idx \X Idx |->
        IF p[1] # p[2] THEN Num(0) ELSE IF p[1] < 3 THEN Num(1) ELSE Rat(1, 2)]

\* how many labelled compliances are tried
MaxLabel == 12

\* compliances whose 36 entries all differ, the two triangles included
LabelledCompliance(k, d) ==
    [p \in Idx \X Idx |-> Rat(6 * p[1] + p[2] + k, d)]

InitTensor ==
    /\ C \in {ShearFixture}
             \cup {DiagCompliance(n, s) : n \in (-MaxCompliance)..MaxCompliance,
                                          s \in (-MaxCompliance)..MaxCompliance}
             \cup {LabelledCompliance(k, d) : k \in 1..MaxLabel, d \in {1, 3, 4}}
    /\ cij = C
    /\ hist = << >>
    /\ op = "none"
    /\ ret = << >>

Convert ==
    /\ op = "none"
    /\ op' = "voigt_to_tensor"
    /\ ret' = voigt_to_tensor(cij)
    /\ UNCHANGED <<C, cij, hist>>

NextTensor == Convert

SpecTensor == InitTensor /\ [][NextTensor]_vars

(***************************************************************************)
(* core/conversions.py in sequence: a caller converts its matrix and may   *)
(* convert the result back.                                                *)
(***************************************************************************)
\* how many conversions a caller chains
MaxConversions == 2

\* 3x3 matrices whose nine entries all differ
LabelledPlanar == {[p \in (0..2) \X (0..2) |-> 2 * (3 * p[1] + p[2] + k)] : k \in 1..MaxLabel}

\* 6x6 matrices with one more entry inside or outside the in-plane block
StrayCells == {<<0, 5>>, <<1, 1>>, <<2, 2>>, <<0, 3>>, <<4, 5>>, <<5, 2>>}

StrayInputs ==
    {[p \in Idx \X Idx |-> IF p = q THEN 2 * 9 ELSE D2toD3(M)[p]] :
        M \in LabelledPlanar, q \in StrayCells}

InitConversions ==
    /\ C \in InPlaneInputs \cup LabelledPlanar \cup CubicInputs \cup StrayInputs
    /\ cij = C
    /\ hist = << >>
    /\ op = "none"
    /\ ret = << >>

D2toD3_Call ==
    /\ Len(hist) < MaxConversions
    /\ Rows(cij) = 3 /\ Cols(cij) = 3
    /\ cij' = D2toD3(cij)
    /\ hist' = Append(hist, "D2toD3")
    /\ op' = "D2toD3"
    /\ ret' = cij'
    /\ UNCHANGED C

D3toD2_Call ==
    /\ Len(hist) < MaxConversions
    /\ Rows(cij) = 6 /\ Cols(cij) = 6
    /\ cij' = D3toD2(cij)
    /\ hist' = Append(hist, "D3toD2")
    /\ op' = "D3toD2"
    /\ ret' = cij'
    /\ UNCHANGED C

NextConversions ==
    \/ D2toD3_Call
    \/ D3toD2_Call

SpecConversions == InitConversions /\ [][NextConversions]_vars

(***************************************************************************)
(* core/conversions.py, rotate_stiffness_matrix: C' = M C M^T with M the   *)
(* 6x6 Bond matrix of the 3x3 matrix R.                                    *)
(***************************************************************************)
\* lines 209-247, row by row
Bond(R) ==
    [p \in Idx \X Idx |->
        LET i == p[1]
            j == p[2]
            \* the two tensor indices a shear Voigt index stands for
            u(k) == IF k = 3 THEN 1 ELSE 0
            v(k) == IF k = 5 THEN 1 ELSE 2
        IN  IF i <= 2 /\ j <= 2 THEN R[i, j] * R[i, j]
            ELSE IF i <= 2 THEN 2 * R[i, u(j)] * R[i, v(j)]
            ELSE IF j <= 2 THEN R[u(i), j] * R[v(i), j]
            ELSE R[u(i), u(j)] * R[v(i), v(j)] + R[u(i), v(j)] * R[v(i), u(j)]]

RECURSIVE Dot(_, _, _, _)
\* the sum over k < n of A[i,k] * B[k,j]
Dot(A, B, p, n) ==
    IF n = 0 THEN 0
    ELSE Dot(A, B, p, n - 1) + A[p[1], n - 1] * B[n - 1, p[2]]

\* A @ B
MatMul(A, B) ==
    [p \in (0..(Rows(A) - 1)) \X (0..(Cols(B) - 1)) |-> Dot(A, B, p, Cols(A))]

\* A.T
Transpose(A) ==
    [p \in (0..(Cols(A) - 1)) \X (0..(Rows(A) - 1)) |-> A[p[2], p[1]]]

\* a slip: the Bond matrix applied from the left only
rotate_stiffness_matrix_LeftOnly(M6, R) ==
    IF Rows(M6) # 6 \/ Cols(M6) # 6
    THEN [raised |-> "ValueError", message |-> "Stiffness matrix must be 6x6"]
    ELSE IF Rows(R) # 3 \/ Cols(R) # 3
    THEN [raised |-> "ValueError", message |-> "Rotation matrix must be 3x3"]
    ELSE [value |-> MatMul(Bond(R), M6)]

rotate_stiffness_matrix(M6, R) ==
    IF Rows(M6) # 6 \/ Cols(M6) # 6
    THEN [raised |-> "ValueError", message |-> "Stiffness matrix must be 6x6"]
    ELSE IF Rows(R) # 3 \/ Cols(R) # 3
    THEN [raised |-> "ValueError", message |-> "Rotation matrix must be 3x3"]
    ELSE [value |-> MatMul(MatMul(Bond(R), M6), Transpose(Bond(R)))]

\* 6x6 stiffness matrices whose 36 entries all differ
LabelledStiffness ==
    {[p \in Idx \X Idx |-> 2 * (6 * p[1] + p[2] + k)] : k \in 1..MaxLabel}

\* the rotations and reflections that map the axes onto the axes
SignedPermutations ==
    {[p \in (0..2) \X (0..2) |-> IF f[p[1]] = p[2] THEN g[p[1]] ELSE 0] :
        f \in {f \in [0..2 -> 0..2] : \A x, y \in 0..2 : x # y => f[x] # f[y]},
        g \in [0..2 -> {-1, 1}]}

\* a 3x3 matrix that is no rotation, and matrices of other shapes
OtherMatrices ==
    {[p \in (0..2) \X (0..2) |-> IF p[1] <= p[2] THEN 1 ELSE 0]}
    \cup {[p \in (0..(sh[1] - 1)) \X (0..(sh[2] - 1)) |-> IF p[1] = p[2] THEN 1 ELSE 0] :
             sh \in {<<2, 2>>, <<3, 4>>, <<4, 3>>, <<6, 6>>}}

InitRotation ==
    /\ C \in LabelledStiffness \cup ShapeInputs \cup LabelledPlanar
    /\ cij = C
    /\ \E R \in SignedPermutations \cup OtherMatrices : hist = <<R>>
    /\ op = "none"
    /\ ret = << >>

Rotate ==
    /\ op = "none"
    /\ op' = "rotate_stiffness_matrix"
    /\ ret' = rotate_stiffness_matrix(cij, hist[1])
    /\ UNCHANGED <<C, cij, hist>>

NextRotation == Rotate

SpecRotation == InitRotation /\ [][NextRotation]_vars

(***************************************************************************)
(* Which array each core operation assigns into.  The operators above are  *)
(* functions of their argument; the code works on numpy arrays, where an   *)
(* item assignment through the argument, or through a basic slice of it,   *)
(* shows in the caller's array.  AssignedArray names, per operation, the   *)
(* expression that created the array its item assignments go to.           *)
(***************************************************************************)
Operations ==
    {"fill_symmetric_matrix", "identify_crystal_type", "StableofMechanical",
     "check_stability_detailed", "ElasticVRH3D", "ElasticVRH2D",
     "D2toD3", "D3toD2", "rotate_stiffness_matrix"}

\* a slip: the operations assign into the array they were handed
AssignedArray_InPlace(operation) == "C"

\* crystal_type.py line 120 (C_filled) and line 256 (C_test);
\* stability.py lines 43-55 read C, index it with np.ix_ (a copy) and
\* rebind the local name; lines 113-140 assign only into the result dict;
\* elastic_vrh.py only inverts C; elastic_vrh_2d.py fills C_planar;
\* conversions.py line 39 (Cij6), line 88 (a copy by np.ix_), line 213 (M)
AssignedArray(operation) ==
    CASE operation = "fill_symmetric_matrix" -> "C.copy()"
      [] operation = "identify_crystal_type" -> "np.zeros((6, 6))"
      [] operation = "ElasticVRH2D" -> "np.zeros((3, 3))"
      [] operation = "D2toD3" -> "np.zeros((num_matrices * 6, 6))"
      [] operation = "rotate_stiffness_matrix" -> "np.zeros((6, 6))"
      [] OTHER -> "none"

\* numpy: the argument itself and a basic slice of it share its memory; a
\* copy, an np.ix_ selection and a new array do not
SharesMemory(created) == created \in {"C", "C[2:5, 2:5]"}

\* the contents of the assigned array when the operation returns
AssignedContents(operation, M, call) ==
    CASE operation = "fill_symmetric_matrix" ->
             fill_symmetric_matrix(M, call.crystal_type, call.flag)
      [] operation = "identify_crystal_type" ->
             C_test(M, sorted_types[Min({FirstMatch(M, 1), Len(sorted_types)})])
      [] operation = "ElasticVRH2D" -> SubMatrix(M, PlanarIndices)
      [] operation = "D2toD3" -> D2toD3(M)
      [] operation = "rotate_stiffness_matrix" -> Bond(call.R)
      [] OTHER -> M

\* the caller's array after the call
ArgumentAfter(operation, M, call) ==
    IF SharesMemory(AssignedArray(operation))
    THEN AssignedContents(operation, M, call)
    ELSE M

\* what the operation returns
Returned(operation, M, call) ==
    CASE operation = "fill_symmetric_matrix" ->
             fill_symmetric_matrix(M, call.crystal_type, call.flag)
      [] operation = "identify_crystal_type" -> identify_crystal_type(M)
      [] operation = "StableofMechanical" -> StableofMechanical(M)
      [] operation = "check_stability_detailed" ->
             check_stability_detailed(M, call.flag)
      [] operation = "ElasticVRH3D" -> ElasticVRH3D(M)
      [] operation = "ElasticVRH2D" -> ElasticVRH2D(M)
      [] operation = "D2toD3" -> D2toD3(M)
      [] operation = "D3toD2" -> D3toD2(M)
      [] operation = "rotate_stiffness_matrix" ->
             rotate_stiffness_matrix(M, call.R)

\* the shapes an operation works on
Accepts(operation, M) ==
    IF operation = "D2toD3" THEN Rows(M) = 3 /\ Cols(M) = 3
    ELSE IF operation \in {"StableofMechanical", "check_stability_detailed"}
    THEN Rows(M) \in {3, 6} /\ Cols(M) = Rows(M)
    ELSE Rows(M) = 6 /\ Cols(M) = 6

\* cubic matrices as a user types them: the upper triangle only
UnfilledInputs ==
    {[Zeros6 EXCEPT ![0,0] = a, ![0,1] = b, ![3,3] = c] :
        a \in Entries, b \in Entries, c \in Entries}

\* a quarter turn about the third axis
QuarterTurn ==
    [p \in (0..2) \X (0..2) |->
        IF p = <<0, 1>> THEN 1
        ELSE IF p = <<1, 0>> THEN -1
        ELSE IF p = <<2, 2>> THEN 1 ELSE 0]

InitFrame ==
    /\ C \in UnfilledInputs \cup CubicInputs \cup InPlaneInputs
    /\ cij = C
    /\ hist = << >>
    /\ op = "none"
    /\ ret = << >>

\* one call of a core operation on the caller's array cij
Call(operation, crystal_type, flag) ==
    LET call == [operation |-> operation, crystal_type |-> crystal_type,
                 flag |-> flag, R |-> QuarterTurn]
    IN  /\ op = "none"
        /\ Accepts(operation, cij)
        /\ crystal_type \in (IF flag THEN 1..10 ELSE 1..4)
        /\ op' = operation
        /\ hist' = <<call>>
        /\ ret' = Returned(operation, cij, call)
        /\ cij' = ArgumentAfter(operation, cij, call)
        /\ UNCHANGED C

NextFrame ==
    \E operation \in Operations, crystal_type \in 1..10, flag \in BOOLEAN :
        Call(operation, crystal_type, flag)

SpecFrame == InitFrame /\ [][NextFrame]_vars

(***************************************************************************)
(* The worked matrices: cubic iron, the reference matrix of the docstring  *)
(* of StableofMechanical (core/stability.py lines 27-32), and the latter   *)
(* with entry [3,3] negated.  A caller classifies its matrix, tests its    *)
(* stability or averages it.                                               *)
(***************************************************************************)
IronFixture == Cubic(2 * 230, 2 * 135, 2 * 117)

ReferenceFixture == Cubic(2 * 269, 2 * 161, 2 * 82)

NegatedFixture ==
    [p \in Idx \X Idx |->
        IF p = <<3, 3>> THEN -(2 * 82) ELSE ReferenceFixture[p]]

Fixtures == {IronFixture, ReferenceFixture, NegatedFixture}

InitEndToEnd ==
    /\ C \in Fixtures \cup CubicInputs
    /\ cij = C
    /\ hist = << >>
    /\ op = "none"
    /\ ret = << >>

NextEndToEnd ==
    \/ Identify
    \/ Stable
    \/ \E is_2d \in BOOLEAN : Detailed(is_2d)
    \/ VRH3D

SpecEndToEnd == InitEndToEnd /\ [][NextEndToEnd]_vars

(***************************************************************************)
(* Properties of the symmetry engine.                                      *)
(***************************************************************************)
Identified == op = "identify_crystal_type"
Filled == op = "fill_symmetric_matrix"

\* the class of the last completion
LastFill == hist[Len(hist)]

\* the number of independent constants the registry lists for a 3D class
Count3D(t) == Len(CRYSTAL_TYPES_3D[t].independent)
Count2D(t) == Len(CRYSTAL_TYPES_2D[t].independent)

\* Cubic, Hexagonal, Tetragonal_1, Trigonal_1, Tetragonal_2, Trigonal_2,
\* Orthorhombic, Monoclinic_1, Monoclinic_2, Triclinic
FixedOrder == <<1, 5, 2, 6, 3, 7, 4, 8, 9, 10>>

IsPrefix(s, t) == Len(s) <= Len(t) /\ \A k \in 1..Len(s) : s[k] = t[k]

\* C1: identify_crystal_type probes the classes in the fixed order Cubic,
\* Hexagonal, Tetragonal_1, Trigonal_1, Tetragonal_2, Trigonal_2,
\* Orthorhombic, Monoclinic_1, Monoclinic_2, Triclinic and returns the first
\* one whose reconstruction matches the input; a matrix that matches Cubic
\* is reported as Cubic whatever else it matches.
C1_FirstMatchInFixedOrder ==
    Identified =>
        /\ IsPrefix(ret.probed, FixedOrder)
        /\ \A k \in 1..Len(FixedOrder) :
              (/\ Matches(cij, FixedOrder[k])
               /\ \A j \in 1..(k - 1) : ~Matches(cij, FixedOrder[j]))
              => ret.result = <<FixedOrder[k], CRYSTAL_TYPES_3D[FixedOrder[k]].name>>
        /\ Matches(cij, 1) => ret.result = <<1, "Cubic">>

\* a matrix that matches Cubic and a less restrictive class was classified
C1_Witness ==
    /\ Identified
    /\ Matches(cij, 1) /\ Matches(cij, 2) /\ Matches(cij, 4)
    /\ ret.result[1] = 1

\* the nonzero entries of M are those of the independent cells of 3D class
\* t: in the upper triangle exactly those cells, below it nothing but mirrors
ExactlyIndependent(M, t) ==
    /\ \A i \in Idx : \A j \in i..5 :
          (M[i,j] # 0) <=> (<<i,j>> \in ProbeCells[t])
    /\ \A i \in Idx : \A j \in (i + 1)..5 : M[j,i] \in {0, M[i,j]}

DistinctValues(M, t) ==
    \A p, q \in ProbeCells[t] : p # q => M[p] # M[q]

\* values that the comparison of line 271 tells apart from each other and
\* from zero
SeparatedValues(M, t) ==
    /\ \A p, q \in ProbeCells[t] : p # q => ~IsClose(M[p], M[q])
    /\ \A p \in ProbeCells[t] : ~IsClose(M[p], 0)

\* the session completed an exact pattern of 3D class t once and classified
\* the result
RoundTrip3D(t) ==
    /\ Identified
    /\ hist = << <<t, TRUE>> >>
    /\ ExactlyIndependent(C, t)

\* C2 as stated: completing distinct nonzero values at the independent cells
\* of a 3D class and classifying the result gives that class back.
C2_RoundTripAlwaysSameClass ==
    \A t \in 1..10 :
        (RoundTrip3D(t) /\ DistinctValues(C, t)) => ret.result[1] = t

\* C2 as amended: the class comes back when the values are apart by more
\* than the comparison tolerance, except that a Tetragonal_1 pattern whose
\* C66 is (C11 - C12)/2 within the tolerance comes back as Hexagonal.
C2_RoundTripUpToHexagonalCoincidence ==
    \A t \in 1..10 :
        (RoundTrip3D(t) /\ SeparatedValues(C, t)) =>
            ret.result[1] =
                IF t = 2 /\ IsClose(C[5,5], Half(C[0,0] - C[0,1]))
                THEN 5 ELSE t

\* every class made the round trip; here the least symmetric one that has
\* completion rules of its own
C2_Witness ==
    /\ RoundTrip3D(7) /\ SeparatedValues(C, 7)
    /\ ret.result = <<7, "Trigonal_2">>

\* C3: identify_crystal_type returns one of the ten registered classes, with
\* its registered name, for every 6x6 matrix, symmetric or not.
C3_IdentifyTotal ==
    Identified =>
        /\ ret.result[1] \in 1..10
        /\ ret.result[2] = CRYSTAL_TYPES_3D[ret.result[1]].name

\* an asymmetric matrix, which no class reconstructs, was classified
C3_Witness ==
    /\ Identified
    /\ \E i, j \in Idx : cij[i,j] # cij[j,i]
    /\ \A t \in 1..10 : ~Matches(cij, t)
    /\ ret.result = <<10, "Triclinic">>

\* the Tetragonal_1 rules, in both triangles
TetragonalRules(F) ==
    /\ F[1,1] = F[0,0]
    /\ F[1,2] = F[0,2] /\ F[2,1] = F[0,2]
    /\ F[4,4] = F[3,3]

TrigonalRules(F) ==
    /\ F[1,3] = -F[0,3] /\ F[3,1] = -F[0,3]
    /\ F[4,5] = F[0,3] /\ F[5,4] = F[0,3]

\* C4: the completed matrix obeys the formula table of its class, signs
\* included, in both triangles.
C4_FormulaTable ==
    (Filled /\ LastFill[2]) =>
        LET t == LastFill[1]
            F == ret
        IN  /\ t = 1 =>
                /\ F[1,1] = F[0,0] /\ F[2,2] = F[0,0]
                /\ F[0,2] = F[0,1] /\ F[1,2] = F[0,1]
                /\ F[2,0] = F[0,1] /\ F[2,1] = F[0,1] /\ F[1,0] = F[0,1]
                /\ F[4,4] = F[3,3] /\ F[5,5] = F[3,3]
            /\ t \in {5, 6, 7} => 2 * F[5,5] = F[0,0] - F[0,1]
            /\ t \in {6, 7} => TrigonalRules(F)
            /\ t = 7 =>
                /\ F[1,4] = -F[0,4] /\ F[4,1] = -F[0,4]
                /\ F[3,5] = -F[0,4] /\ F[5,3] = -F[0,4]
            /\ t = 3 =>
                /\ F[1,5] = -F[0,5] /\ F[5,1] = -F[0,5]
                /\ TetragonalRules(F)

\* a Trigonal_2 completion with C14 and C15 both given, and a hexagonal C66
\* that had to be computed
C4_Witness ==
    /\ Filled /\ LastFill = <<7, TRUE>>
    /\ ret[0,3] # 0 /\ ret[0,4] # 0 /\ ret[1,4] = -ret[0,4]
    /\ ret[5,5] # C[5,5] /\ ret[5,5] # 0

\* the cells of a class that the rules overwrite (upper triangle)
RuleTargets(cls) ==
    IF cls[2]
    THEN CASE cls[1] = 1 -> {<<1,1>>, <<2,2>>, <<0,2>>, <<1,2>>, <<4,4>>, <<5,5>>}
           [] cls[1] = 2 -> {<<1,1>>, <<1,2>>, <<4,4>>}
           [] cls[1] = 3 -> {<<1,1>>, <<1,2>>, <<4,4>>, <<1,5>>}
           [] cls[1] = 5 -> {<<1,1>>, <<1,2>>, <<4,4>>, <<5,5>>}
           [] cls[1] = 6 -> {<<1,1>>, <<1,2>>, <<4,4>>, <<1,3>>, <<4,5>>, <<5,5>>}
           [] cls[1] = 7 -> {<<1,1>>, <<1,2>>, <<4,4>>, <<1,3>>, <<4,5>>,
                             <<1,4>>, <<3,5>>, <<5,5>>}
           [] OTHER -> {}
    ELSE CASE cls[1] = 1 -> {<<1,1>>, <<5,5>>}
           [] cls[1] = 2 -> {<<1,1>>}
           [] OTHER -> {}

\* the rules of a class that read an off-diagonal cell:
\* <<cell read, cell written, sign>>
RuleReads(cls) ==
    IF cls[2]
    THEN CASE cls[1] = 1 -> {<< <<0,1>>, <<0,2>>, 1 >>, << <<0,1>>, <<1,2>>, 1 >>}
           [] cls[1] \in {2, 5} -> {<< <<0,2>>, <<1,2>>, 1 >>}
           [] cls[1] = 3 -> {<< <<0,2>>, <<1,2>>, 1 >>, << <<0,5>>, <<1,5>>, -1 >>}
           [] cls[1] = 6 -> {<< <<0,2>>, <<1,2>>, 1 >>, << <<0,3>>, <<1,3>>, -1 >>,
                             << <<0,3>>, <<4,5>>, 1 >>}
           [] cls[1] = 7 -> {<< <<0,2>>, <<1,2>>, 1 >>, << <<0,3>>, <<1,3>>, -1 >>,
                             << <<0,3>>, <<4,5>>, 1 >>, << <<0,4>>, <<1,4>>, -1 >>,
                             << <<0,4>>, <<3,5>>, -1 >>}
           [] OTHER -> {}
    ELSE {}

\* the classes whose C66 is computed from C11 and C12
HalvesC12(cls) == IF cls[2] THEN cls[1] \in {5, 6, 7} ELSE cls[1] = 1

OneSided(M, i, j) == (M[i,j] = 0) # (M[j,i] = 0)

\* C5: where the input gives only one of C[i,j] and C[j,i], the completion
\* holds that value at both cells unless a rule of the class overwrites the
\* pair, and every rule of the class that reads the pair reads that value:
\* the copy is made before the rules are applied.
C5_OneSidedReconciled ==
    (Filled /\ Len(hist) = 1) =>
        \A i \in Idx : \A j \in (i + 1)..5 :
            OneSided(C, i, j) =>
                LET v == IF C[i,j] # 0 THEN C[i,j] ELSE C[j,i]
                IN  /\ <<i,j>> \notin RuleTargets(LastFill) =>
                          ret[i,j] = v /\ ret[j,i] = v
                    /\ \A r \in RuleReads(LastFill) :
                          r[1] = <<i,j>> =>
                              /\ ret[r[2]] = r[3] * v
                              /\ ret[r[2][2], r[2][1]] = r[3] * v
                    /\ (HalvesC12(LastFill) /\ <<i,j>> = <<0,1>>) =>
                          2 * ret[5,5] = ret[0,0] - v

\* C12 was given only below the diagonal and the Cubic rules spread it
C5_Witness ==
    /\ Filled /\ hist = << <<1, TRUE>> >>
    /\ C[0,1] = 0 /\ C[1,0] # 0
    /\ ret[0,1] = C[1,0] /\ ret[1,2] = C[1,0] /\ ret[2,0] = C[1,0]

\* C6 as stated: along the classification order the number of independent
\* constants strictly increases, from Cubic (3) to Triclinic (21), and in 2D
\* from Hexagonal (2) to Oblique (6).
C6_CountStrictlyIncreases ==
    Identified =>
        /\ \A k \in 1..(Len(ret.probed) - 1) :
              Count3D(ret.probed[k]) < Count3D(ret.probed[k + 1])
        /\ \A t \in 1..3 : Count2D(t) < Count2D(t + 1)

\* C6 as amended: along the classification order the count never decreases,
\* from Cubic (3) to Triclinic (21); where two classes share a count the one
\* with the lower registry id is probed first; in 2D the count strictly
\* increases from Hexagonal (2) to Oblique (6).
C6_CountNeverDecreases ==
    Identified =>
        /\ \A k \in 1..(Len(ret.probed) - 1) :
              \/ Count3D(ret.probed[k]) < Count3D(ret.probed[k + 1])
              \/ /\ Count3D(ret.probed[k]) = Count3D(ret.probed[k + 1])
                 /\ ret.probed[k] < ret.probed[k + 1]
        /\ ret.probed[1] = 1 /\ Count3D(1) = 3
        /\ Len(ret.probed) = 10 =>
              ret.probed[10] = 10 /\ Count3D(10) = 21
        /\ \A t \in 1..3 : Count2D(t) < Count2D(t + 1)
        /\ Count2D(1) = 2 /\ Count2D(4) = 6

\* a classification that walked the whole order, ties included
C6_Witness ==
    /\ Identified
    /\ Len(ret.probed) = 10
    /\ Count3D(ret.probed[3]) = Count3D(ret.probed[4])


Loaded2D == op = "loadElasticConstantsFromFile" /\ ~ret.is_3d

\* the independent cells of 2D class t
Cells2D(t) ==
    LET cells == get_enabled_indices(t, FALSE)
    IN  {cells[k] : k \in 1..Len(cells)}

\* the session completed, by the 2D rules of class t and once, a matrix
\* whose upper triangle is nonzero at exactly the independent cells of t,
\* with distinct values there, and the widget detected the class of the
\* result
RoundTrip2D(t) ==
    /\ Loaded2D
    /\ hist = << <<t, FALSE>> >>
    /\ \A i \in Idx : \A j \in i..5 : (C[i,j] # 0) <=> (<<i,j>> \in Cells2D(t))
    /\ \A i \in Idx : \A j \in (i + 1)..5 : C[j,i] \in {0, C[i,j]}
    /\ \A p, q \in Cells2D(t) : p # q => C[p] # C[q]

\* C19 as stated: completing distinct nonzero values at the independent
\* cells of a 2D class and detecting the class of the result gives that
\* class back.
C19_RoundTrip2DAlwaysSameClass ==
    \A t \in 1..4 :
        RoundTrip2D(t) => ret.result = <<t, CRYSTAL_TYPES_2D[t].name>>

\* C19 as amended: the class comes back, except that a Square pattern whose
\* C66 is (C11 - C12)/2 comes back as Hexagonal.
C19_RoundTrip2DUpToHexagonalCoincidence ==
    \A t \in 1..4 :
        RoundTrip2D(t) =>
            ret.result =
                IF t = 2 /\ 2 * C[5,5] = C[0,0] - C[0,1]
                THEN <<1, "Hexagonal">>
                ELSE <<t, CRYSTAL_TYPES_2D[t].name>>

\* the least symmetric class made the round trip, and a Square pattern with
\* C66 apart from (C11 - C12)/2 did
C19_Witness ==
    \/ RoundTrip2D(4) /\ ret.result = <<4, "Oblique">>
    \/ /\ RoundTrip2D(2) /\ 2 * C[5,5] # C[0,0] - C[0,1]
       /\ ret.result = <<2, "Square">>

(***************************************************************************)
(* Properties of the stability test.                                       *)
(***************************************************************************)
DetailedCalled == op = "check_stability_detailed"

\* the shapes both entry points turn away
ShapeError == Rows(cij) # Cols(cij) \/ Rows(cij) \notin {3, 6}

\* the call computed eigenvalues: no shape error, nothing raised
EigenvaluesReported ==
    /\ DetailedCalled
    /\ "raised" \notin DOMAIN ret.result
    /\ ret.result.eigenvalues # "None"

\* C7 as stated: check_stability_detailed on D2toD3(C2), with no 2D flag from
\* the caller, reports the eigenvalues, the minimum eigenvalue and the
\* stable flag it reports on C2 itself.
C7_EmbeddedAgreesWithDirect ==
    (DetailedCalled /\ hist = <<"D2toD3">> /\ ~ret.is_2d) =>
        LET direct == check_stability_detailed(C, FALSE)
        IN  /\ ret.result.eigenvalues = direct.eigenvalues
            /\ ret.result.min_eigenvalue = direct.min_eigenvalue
            /\ ret.result.stable = direct.stable

\* the matrix whose eigenvalues a call of check_stability_detailed reports
Examined == IF ret.is_2d THEN SubMatrix(cij, PlanarIndices) ELSE cij

\* the matrix StableofMechanical decides on: the in-plane block when the
\* block of rows and columns 2..4 of a 6x6 matrix is zero
Reduced ==
    IF Rows(cij) = 6 /\ \A i, j \in 2..4 : cij[i,j] = 0
    THEN SubMatrix(cij, PlanarIndices)
    ELSE cij

\* C8: the verdict is stable exactly when every eigenvalue of the examined
\* matrix is strictly positive, so a zero eigenvalue makes it unstable;
\* min_eigenvalue is the least eigenvalue and stable == (min_eigenvalue > 0);
\* an unstable verdict carries the number of eigenvalues that are <= 0.
C8_StableIffAllPositive ==
    /\ EigenvaluesReported =>
        LET r == ret.result
            ev == eigvals(Examined)
            n == Len(ev)
        IN  /\ r.eigenvalues = ev
            /\ r.stable <=> \A k \in 1..n : ev[k] > 0
            /\ (\E k \in 1..n : ev[k] = 0) => ~r.stable
            /\ \E k \in 1..n : r.min_eigenvalue = ev[k]
            /\ \A k \in 1..n : r.min_eigenvalue <= ev[k]
            /\ r.stable <=> r.min_eigenvalue > 0
            /\ ~r.stable =>
                  r.message[2] = Cardinality({k \in 1..n : ev[k] <= 0})
    /\ (op = "StableofMechanical" /\ ~ShapeError) =>
        LET ev == eigvals(Reduced)
        IN  /\ ret <=> \A k \in 1..Len(ev) : ev[k] > 0
            /\ (\E k \in 1..Len(ev) : ev[k] = 0) => ~ret

\* a 3x3 matrix with a zero eigenvalue and no negative one was found unstable
C8_Witness ==
    /\ EigenvaluesReported
    /\ Rows(cij) = 3
    /\ ret.result.min_eigenvalue = 0
    /\ ~ret.result.stable
    /\ ret.result.message[2] = 1
    /\ ret.result.eigenvalues[3] > 0

\* C11: on a non-square matrix, or a square one of a size other than 3 and
\* 6, either entry point hands the caller an error report and no
\* eigenvalues: check_stability_detailed a result naming the error, with no
\* eigenvalues and no minimum; StableofMechanical something other than a bare
\* verdict.
C11_ShapeErrorReported ==
    /\ (DetailedCalled /\ ShapeError) =>
          /\ ret.result.eigenvalues = "None"
          /\ ret.result.min_eigenvalue = "None"
          /\ ret.result.message \in {<<"Matrix is not square">>,
                                     <<"Matrix must be 3x3 or 6x6">>}
    /\ (op = "StableofMechanical" /\ ShapeError) => ret \notin BOOLEAN

(***************************************************************************)
(* Properties of the Voigt-Reuss-Hill averages (under SpecVRH).            *)
(***************************************************************************)
Raised == DOMAIN ret = {"raised"}

\* C9: whenever the in-plane {0,1,5} block is singular, the 2D average
\* raises and hands back no result record
C9_Singular2DRaises ==
    (op = "ElasticVRH2D" /\ Singular(SubMatrix(cij, PlanarIndices))) => Raised

\* C10: whenever the 6x6 stiffness matrix is singular, the 3D average ends
\* in the inversion error and hands back nothing else, no Voigt value
\* included; a nonsingular matrix gets a full record
C10_Singular3DPropagates ==
    op = "ElasticVRH3D" =>
        IF Singular(cij)
        THEN ret = [raised |-> "LinAlgError"]
        ELSE {"K_V", "K_R", "K_VRH", "G_V", "G_R", "G_VRH"} \subseteq DOMAIN ret

\* a singular 6x6 matrix whose Voigt averages are well defined and nonzero
\* went through the 3D average and raised
C10_Witness ==
    /\ op = "ElasticVRH3D"
    /\ Singular(cij)
    /\ cij[0,0] + cij[1,1] + cij[2,2] > 0
    /\ cij[3,3] > 0
    /\ Raised

\* the compliance the 2D average works with (elastic_vrh_2d.py lines 60-68)
PlanarCompliance(i, j) ==
    LET C_planar == SubMatrix(cij, PlanarIndices)
    IN  IF Singular(C_planar) THEN Num(0) ELSE InvEntry(C_planar, i, j)

\* C20: in the 2D average K_R is 0 when S11 + S22 + 2*S12 is 0, E and nu
\* are 0 when K_VRH + G_VRH is 0, and no field of the result is nan or
\* infinite: every ratio with a zero denominator yields 0.
C20_ZeroDenominatorsYieldZero ==
    op = "ElasticVRH2D" =>
        /\ ~Raised
        /\ Add(Add(PlanarCompliance(0, 0), PlanarCompliance(1, 1)),
               Mul(Num(2), PlanarCompliance(0, 1))) = Num(0)
              => ret.K_R = Num(0)
        /\ Add(ret.K_VRH, ret.G_VRH) = Num(0)
              => (ret.E = Num(0) /\ ret.v = Num(0))
        /\ \A f \in DOMAIN ret : IsFinite(ret[f])

Symmetric(M) == \A p \in DOMAIN M : M[p] = M[p[2], p[1]]

\* Sylvester's criterion: every leading principal minor is positive
PositiveDefinite(M) ==
    \A k \in 1..Rows(M) :
        Minor(M, Ascending(0..(k - 1)), Ascending(0..(k - 1))) > 0

\* C16: on a symmetric positive-definite matrix the 3D average has
\* K_R <= K_VRH <= K_V and G_R <= G_VRH <= G_V, K_VRH and G_VRH are the
\* arithmetic means of their bounds, and A = 5 G_V/G_R + K_V/K_R - 6 is
\* >= 0, and 0 exactly when K_V = K_R and G_V = G_R.
C16_BoundsOrdered ==
    (op = "ElasticVRH3D" /\ Symmetric(cij) /\ PositiveDefinite(cij)) =>
        /\ ~Raised
        /\ LessEq(ret.K_R, ret.K_VRH) /\ LessEq(ret.K_VRH, ret.K_V)
        /\ LessEq(ret.G_R, ret.G_VRH) /\ LessEq(ret.G_VRH, ret.G_V)
        /\ Add(ret.K_VRH, ret.K_VRH) = Add(ret.K_V, ret.K_R)
        /\ Add(ret.G_VRH, ret.G_VRH) = Add(ret.G_V, ret.G_R)
        /\ ret.A = Sub(Add(Div(Mul(Num(5), ret.G_V), ret.G_R),
                           Div(ret.K_V, ret.K_R)), Num(6))
        /\ LessEq(Num(0), ret.A)
        /\ ret.A = Num(0) <=> (ret.K_V = ret.K_R /\ ret.G_V = ret.G_R)

\* a positive-definite matrix whose bulk and shear bounds both differ
C16_Witness ==
    /\ op = "ElasticVRH3D" /\ Symmetric(cij) /\ PositiveDefinite(cij)
    /\ ~Raised
    /\ ret.K_R # ret.K_V /\ LessEq(ret.K_R, ret.K_V)
    /\ ret.G_R # ret.G_V /\ LessEq(ret.G_R, ret.G_V)
    /\ ret.A # Num(0)

(***************************************************************************)
(* Properties of the directional evaluators (under SpecDirectional).       *)
(***************************************************************************)
Directions == hist[1]

Aggregated == op \in {"Shear_3D", "Poisson_3D"} /\ ~Raised

\* the values an aggregate returned, over all directions of the call
AggregateValues ==
    UNION {{ret.min[p], ret.mean[p], ret.max[p]} : p \in Indices(ret.shape)}

\* C12: on an elastically isotropic cubic matrix the Poisson aggregate has
\* min = mean = max at every direction, one value for all directions.
C12_PoissonDirectionIndependent ==
    (Aggregated /\ op = "Poisson_3D" /\ Isotropic(C)) =>
        Cardinality(AggregateValues) = 1

\* C13: on an elastically isotropic cubic matrix Young's modulus is the same
\* at every direction (1/S11), and the shear aggregate has min = mean = max
\* = C44 at every direction.
C13_ModuliDirectionIndependent ==
    /\ (op = "Young_3D" /\ Isotropic(C)) =>
          \A p \in Indices(ret.shape) : ret.values[p] = Div(Num(1), cij[0, 0])
    /\ (Aggregated /\ op = "Shear_3D" /\ Isotropic(C)) =>
          AggregateValues = {Num(C[3, 3])}

\* the shear aggregate ran its 100-sample sweep on an isotropic matrix at a
\* direction off the axes and found C44 throughout
C13_Witness ==
    /\ Aggregated /\ op = "Shear_3D" /\ Isotropic(C)
    /\ Len(ret.shape) = 1
    /\ \E p \in Indices(ret.shape) :
          <<Directions.theta[p], Directions.phi[p]>> \in SkewDirections
    /\ AggregateValues = {Num(C[3, 3])}
    /\ Num(C[3, 3]) # Div(Num(1), cij[0, 0])

\* C14: both aggregates sweep chi over np.linspace(-pi, pi, 100), whatever
\* the shape of the directions.
C14_HundredChiSamples ==
    Aggregated => ret.chi = linspace(n_chi)

\* C15: every evaluator returns, for directions given as scalars, 1-D arrays
\* or meshgrids, an output of the shape of its input.
C15_EveryShapeAccepted ==
    op \in {"Young_3D", "Bulk_3D", "Shear_3D", "Poisson_3D", "Hardness_3D"} =>
        /\ ~Raised
        /\ ret.shape = Directions.shape

(***************************************************************************)
(* Properties of the worked matrices (under SpecEndToEnd).                 *)
(***************************************************************************)
Averaged == op = "ElasticVRH3D" /\ "K_VRH" \in DOMAIN ret

\* C17: the cubic iron matrix (230, 135, 117 GPa) is classified Cubic, both
\* stability tests find it stable, and its 3D average has
\* K_VRH = K_V = K_R.
C17_IronEndToEnd ==
    cij = IronFixture =>
        /\ Identified => ret.result = <<1, "Cubic">>
        /\ op = "StableofMechanical" => ret = TRUE
        /\ DetailedCalled => ret.result.stable = TRUE
        /\ op = "ElasticVRH3D" =>
              /\ Averaged
              /\ ret.K_VRH = ret.K_V
              /\ ret.K_V = ret.K_R

\* the iron matrix went through the 3D average: the three bulk moduli are
\* 500/3 GPa while the shear bounds differ (446/5 against 18525/251 GPa)
C17_Witness ==
    /\ cij = IronFixture
    /\ Averaged
    /\ ret.K_VRH = Rat(1000, 3) /\ ret.K_V = ret.K_VRH /\ ret.K_R = ret.K_VRH
    /\ ret.G_V = Rat(892, 5)
    /\ ret.G_R = Rat(37050, 251)

\* C18: the 3D stability tests find the reference matrix (269, 161, 82 GPa)
\* stable with six eigenvalues, all positive; with entry [3,3] replaced by
\* -82 they find it unstable and the reported minimum eigenvalue is
\* negative.
C18_ReferenceFixture ==
    /\ (cij = ReferenceFixture /\ op = "StableofMechanical") => ret = TRUE
    /\ (cij = NegatedFixture /\ op = "StableofMechanical") => ret = FALSE
    /\ (cij = ReferenceFixture /\ DetailedCalled /\ ~ret.is_2d) =>
          /\ ret.result.stable = TRUE
          /\ Len(ret.result.eigenvalues) = 6
          /\ AllPositive(ret.result.eigenvalues)
    /\ (cij = NegatedFixture /\ DetailedCalled /\ ~ret.is_2d) =>
          /\ ret.result.stable = FALSE
          /\ ret.result.min_eigenvalue < 0

\* the negated matrix went through the detailed test: unstable, with the
\* eigenvalues -82, 82, 82, 108, 108 and 591 GPa and one non-positive
C18_Witness ==
    /\ cij = NegatedFixture
    /\ DetailedCalled /\ ~ret.is_2d
    /\ ret.result.stable = FALSE
    /\ ret.result.eigenvalues = <<-164, 164, 164, 216, 216, 1182>>
    /\ ret.result.min_eigenvalue = -164

(***************************************************************************)
(* Properties of the hardness (under SpecHardness).                        *)
(***************************************************************************)
HardnessReturned == op = "Hardness_3D" /\ ~Raised

TensorBuilt == op = "voigt_to_tensor"

TensorCells == (0..2) \X (0..2) \X (0..2) \X (0..2)

\* how many of two Voigt indices are shear indices
ShearCount(i, j) == (IF i >= 3 THEN 1 ELSE 0) + (IF j >= 3 THEN 1 ELSE 0)

\* C22: every tensor component [a,b,c,d] is S[i,j] divided by 1, 2 or 4 as
\* none, one or both of the Voigt indices i of (a,b) and j of (c,d) are >= 3;
\* the tensor is symmetric in each pair; and for diag(1,1,1,.5,.5,.5) the
\* components [i,i,i,i] are 1 and the shear-shear ones a quarter of their
\* Voigt value.
C22_VoigtToTensor ==
    TensorBuilt =>
        /\ \A q \in TensorCells :
              LET i == voigt_map(q[1], q[2])
                  j == voigt_map(q[3], q[4])
              IN  /\ ret[q] = Div(cij[i, j],
                                  Num(<<1, 2, 4>>[ShearCount(i, j) + 1]))
                  /\ ret[q] = ret[<<q[2], q[1], q[3], q[4]>>]
                  /\ ret[q] = ret[<<q[1], q[2], q[4], q[3]>>]
                  /\ ret[q] = S_tensor(cij, q[1], q[2], q[3], q[4])
        /\ cij = ShearFixture =>
              /\ \A i \in 0..2 : ret[<<i, i, i, i>>] = Num(1)
              /\ \A q \in TensorCells :
                    (q[1] # q[2] /\ <<q[3], q[4]>> \in {<<q[1], q[2]>>, <<q[2], q[1]>>})
                        => ret[q] = Rat(1, 8)

\* a compliance with 36 different entries was converted: the shear-shear
\* component [1,2,0,1] is a quarter of S[3,5], and [0,1,1,2] a quarter of
\* the different S[5,3]
C22_Witness ==
    /\ TensorBuilt
    /\ cij[3, 5] # cij[5, 3]
    /\ ret[<<1, 2, 0, 1>>] = Div(cij[3, 5], Num(4))
    /\ ret[<<0, 1, 1, 2>>] = Div(cij[5, 3], Num(4))
    /\ ret[<<2, 1, 0, 0>>] = Div(cij[3, 0], Num(2))

(***************************************************************************)
(* Properties of the conversions (under SpecConversions).                  *)
(***************************************************************************)
InBlock(k) == k \in {PlanarIndices[q] : q \in 1..3}

\* the position of 6x6 index k in the in-plane block
BlockPosition(k) == CHOOSE q \in 0..2 : PlanarIndices[q + 1] = k

ZeroOutsideBlock(M) ==
    \A p \in Idx \X Idx : (InBlock(p[1]) /\ InBlock(p[2])) \/ M[p] = 0

\* C23: D2toD3 of a 3x3 matrix holds it at {0,1,5} x {0,1,5} and zero in
\* every other cell, D3toD2 of that gives the 3x3 matrix back, and
\* D2toD3(D3toD2(C6)) is C6 exactly when C6 is zero outside the block.
C23_EmbedExtractRoundTrip ==
    /\ hist = <<"D2toD3">> =>
          /\ DOMAIN cij = Idx \X Idx
          /\ \A p \in Idx \X Idx :
                cij[p] = IF InBlock(p[1]) /\ InBlock(p[2])
                         THEN C[BlockPosition(p[1]), BlockPosition(p[2])]
                         ELSE 0
    /\ hist = <<"D2toD3", "D3toD2">> => cij = C
    /\ hist = <<"D3toD2", "D2toD3">> => (cij = C <=> ZeroOutsideBlock(C))

\* a 3x3 matrix with nine different entries came back from the embedding,
\* and a 6x6 matrix with an entry outside the block did not come back
C23_Witness ==
    \/ /\ hist = <<"D2toD3", "D3toD2">>
       /\ cij = C
       /\ \A p, q \in DOMAIN C : p # q => C[p] # C[q]
    \/ /\ hist = <<"D3toD2", "D2toD3">>
       /\ ~ZeroOutsideBlock(C)
       /\ cij # C

(***************************************************************************)
(* Properties of the rotation (under SpecRotation).                        *)
(***************************************************************************)
Rotated == op = "rotate_stiffness_matrix"

RECURSIVE IntSum(_, _)
\* f[0] + ... + f[n-1]
IntSum(f, n) == IF n = 0 THEN 0 ELSE IntSum(f, n - 1) + f[n - 1]

\* C25: rotate_stiffness_matrix ends in a ValueError, and hands back
\* nothing, whenever C is not 6x6 or R is not 3x3; otherwise it returns
\* M C M^T: entry (i, j) is the sum over k, l of M[i,k] C[k,l] M[j,l].
C25_RotateChecksShapes ==
    Rotated =>
        IF DOMAIN cij # Idx \X Idx \/ DOMAIN hist[1] # (0..2) \X (0..2)
        THEN /\ DOMAIN ret = {"raised", "message"}
             /\ ret.raised = "ValueError"
        ELSE /\ DOMAIN ret = {"value"}
             /\ DOMAIN ret.value = Idx \X Idx
             /\ \A p \in Idx \X Idx :
                   ret.value[p] =
                       IntSum([k \in Idx |->
                           IntSum([l \in Idx |->
                               Bond(hist[1])[p[1], k] * cij[k, l]
                               * Bond(hist[1])[p[2], l]], 6)], 6)

\* a stiffness matrix with 36 different entries was turned by a quarter
\* about the third axis: C11 and C22 changed places, C16 became -C26
C25_Witness ==
    /\ Rotated
    /\ DOMAIN ret = {"value"}
    /\ hist[1][0, 1] = 1 /\ hist[1][1, 0] = -1 /\ hist[1][2, 2] = 1
    /\ cij[0, 0] # cij[1, 1]
    /\ ret.value[0, 0] = cij[1, 1]
    /\ ret.value[1, 1] = cij[0, 0]
    /\ ret.value[0, 5] = -cij[1, 5]

(***************************************************************************)
(* Properties of the caller's array (under SpecFrame).                     *)
(***************************************************************************)
Called == op \in Operations

\* C24: when a core operation returns, the array the caller passed in holds
\* exactly the values it held before the call.
C24_ArgumentUnmodified == Called => cij = C

\* a completion that returned something other than its argument, and an
\* embedding that returned a 6x6 matrix, both left the argument as it was
C24_Witness ==
    /\ Called
    /\ cij = C
    /\ \/ /\ op = "fill_symmetric_matrix"
          /\ ret # C
          /\ C[1, 0] = 0 /\ ret[1, 0] # 0
       \/ /\ op = "D2toD3"
          /\ DOMAIN ret = Idx \X Idx
          /\ DOMAIN C = (0..2) \X (0..2)

(***************************************************************************)
(* Properties of the cells a completion touches (under Spec).              *)
(***************************************************************************)
\* cij is fill_symmetric_matrix(C, crystal_type, is_3d)
FilledOnce == Len(hist) = 1

\* cell p took the value of its mirror cell in the loop of lines 123-128:
\* a lower cell takes a nonzero upper value, an empty upper cell a nonzero
\* lower value
Reconciled(p) ==
    /\ p[1] # p[2]
    /\ C[p[2], p[1]] # 0
    /\ cij[p] = C[p[2], p[1]]
    /\ p[1] < p[2] => C[p] = 0

\* the independent cells of the class of the completion
IndependentCells ==
    LET cells == get_enabled_indices(hist[1][1], hist[1][2])
    IN  {cells[k] : k \in 1..Len(cells)}

\* the cells the class leaves at zero: neither independent, nor the mirror
\* of an independent cell, nor written by a rule
ZeroCells ==
    {p \in Idx \X Idx :
        /\ p \notin IndependentCells
        /\ <<p[2], p[1]>> \notin IndependentCells
        /\ p \notin AssignedCells(hist[1][1], hist[1][2])}

\* the classes without a rule
RuleFree ==
    {<<4, TRUE>>, <<8, TRUE>>, <<9, TRUE>>, <<10, TRUE>>,
     <<3, FALSE>>, <<4, FALSE>>}

Disagreeing ==
    {p \in Idx \X Idx :
        p[1] < p[2] /\ C[p] # 0 /\ C[p[2], p[1]] # 0 /\ C[p] # C[p[2], p[1]]}

\* C27 as stated: the completion is symmetric, and where the two triangles
\* of the input disagree with both values nonzero, the completion holds the
\* upper-triangle value.
C27_UpperValueAlwaysKept ==
    FilledOnce =>
        /\ \A i, j \in Idx : cij[i, j] = cij[j, i]
        /\ \A p \in Disagreeing : cij[p] = C[p]

\* C27: the completion is symmetric for every class id, 3D or 2D, and for
\* asymmetric input; where the two triangles of the input disagree with
\* both values nonzero, the completion holds the upper-triangle value at
\* both cells unless a rule of the class assigns the pair, and then both
\* cells hold the value of the rule.
C27_UpperValueKeptOutsideRules ==
    FilledOnce =>
        /\ \A i, j \in Idx : cij[i, j] = cij[j, i]
        /\ \A p \in Disagreeing :
              p \notin AssignedCells(hist[1][1], hist[1][2]) =>
                  cij[p] = C[p] /\ cij[p[2], p[1]] = C[p]

\* an orthorhombic completion of a matrix whose C32 differs from its C23:
\* both cells hold the input's C23
C27_Witness ==
    /\ FilledOnce
    /\ hist[1] = <<4, TRUE>>
    /\ <<1, 2>> \in Disagreeing
    /\ cij[1, 2] = C[1, 2] /\ cij[2, 1] = C[1, 2]

(***************************************************************************)
(* Properties of a repeated completion (under Spec).                       *)
(***************************************************************************)
\* cij is the completion, by the same class, of the completion of C
FilledTwice == Len(hist) = 2 /\ hist[1] = hist[2]

\* C28: completing a completed matrix again with the same class id, 3D or
\* 2D, gives the same matrix:
\* fill_symmetric_matrix(fill_symmetric_matrix(C, X), X) =
\* fill_symmetric_matrix(C, X).
C28_CompletionIdempotent ==
    FilledTwice =>
        cij = fill_symmetric_matrix(C, hist[1][1], hist[1][2])

\* a matrix holding C12 below the diagonal only was completed twice as
\* Cubic, and the first completion was no fixed point of the input
C28_Witness ==
    /\ FilledTwice
    /\ hist[1] = <<1, TRUE>>
    /\ C[0, 1] = 0 /\ C[1, 0] # 0
    /\ cij # C
    /\ cij[1, 2] = C[1, 0]

(***************************************************************************)
(* Properties of classification against completion (under Spec).           *)
(***************************************************************************)

\* C29: when identify_crystal_type returns class X for a symmetric 6x6
\* matrix, fill_symmetric_matrix of that matrix with class X agrees with
\* the matrix in every entry within the tolerance of the classification.
C29_ClassificationFixesCompletion ==
    (Identified /\ Symmetric(cij)) =>
        /\ ret.result[1] \in 1..10
        /\ AllClose(cij, fill_symmetric_matrix(cij, ret.result[1], TRUE))
        /\ AllClose(fill_symmetric_matrix(cij, ret.result[1], TRUE), cij)

\* a matrix classified as Trigonal_1 with C14 given: its completion as
\* Trigonal_1 is the matrix itself, its completion as Cubic is not
C29_Witness ==
    /\ Identified
    /\ Symmetric(cij)
    /\ ret.result[1] = 6
    /\ cij[0, 3] # 0 /\ cij[1, 3] = -cij[0, 3]
    /\ fill_symmetric_matrix(cij, 6, TRUE) = cij
    /\ fill_symmetric_matrix(cij, 1, TRUE) # cij

(***************************************************************************)
(* Properties of the two stability entry points (under SpecStability).     *)
(***************************************************************************)
\* C30: StableofMechanical(C) is the 'stable' flag check_stability_detailed(C)
\* gives with its default arguments, for every 3x3 and every 6x6 matrix:
\* also for a 6x6 matrix whose rows and columns 2, 3, 4 are zero, and for
\* one whose block [2:5, 2:5] is zero while C13 or C23 is not.
C30_EntryPointsAgree ==
    (Rows(cij) = Cols(cij) /\ Rows(cij) \in {3, 6}) =>
        /\ op = "StableofMechanical" =>
              ret = check_stability_detailed(cij, FALSE).stable
        /\ (DetailedCalled /\ ~ret.is_2d) =>
              ret.result.stable = StableofMechanical(cij)

=============================================================================
